---- MODULE Spec2Model ----
(***************************************************************************)
(* Gate controller of the parking system (src/src/common/gate_control.c).  *)
(* One state machine per gate (entry, exit), a polling thread per gate     *)
(* that samples the two end-position sensors every 100 ms and drives the   *)
(* motor output, and the public commands gate_open, gate_close,            *)
(* gate_get_state, gate_reset_error and gate_emergency_open_all.           *)
(*                                                                         *)
(* Spec and SpecBoth take every locked section as one step.  SpecMutex     *)
(* splits each locked section into lock, read and write-and-unlock steps   *)
(* of the calling thread, so that the mutual exclusion the steps of the    *)
(* other specifications rest on is itself checked.                         *)
(*                                                                         *)
(* Real time is counted in polling periods (100 ms).  time(NULL) is the    *)
(* number of whole seconds of that clock.                                  *)
(*                                                                         *)
(* Bus client (src/src/common/modbus_client.c): the operations on the      *)
(* cameras and the display, each taken as call, lock, send, receive and    *)
(* return steps of its caller (SpecBus: two callers; SpecClient: one       *)
(* caller, every timeout; SpecPlate: one plate reading for every camera    *)
(* contents).                                                              *)
(*                                                                         *)
(* Passage detector (src/src/servidor_andar1/main.c): one step per sample  *)
(* of the two passage sensors, and a clock in half seconds, of which       *)
(* time(NULL) is the whole seconds (SpecPassage).                          *)
(***************************************************************************)
EXTENDS Integers, FiniteSets, Sequences, TLC

\* ---------------------------------------------------------------- constants

GATE_TIMEOUT_MS == 5000

POLL_SLEEP_MS == 100

MS_PER_SEC == 1000

\* Horizon of the clock, in polling periods.
MaxNow == 72

\* Threads that call the public commands concurrently.
Callers == {"caller1", "caller2"}

\* Movements a gate may complete within the horizon (the end-position
\* sensor of a moving gate reads inactive once this many were counted).
MaxOps == 2

\* gate_type_t
GATE_ENTRY == "GATE_ENTRY"
GATE_EXIT == "GATE_EXIT"
Gates == {GATE_ENTRY, GATE_EXIT}

\* gate_state_t
GATE_STATE_CLOSED == "CLOSED"
GATE_STATE_OPENING == "OPENING"
GATE_STATE_OPEN == "OPEN"
GATE_STATE_CLOSING == "CLOSING"
GATE_STATE_ERROR == "ERROR"
Moving == {GATE_STATE_OPENING, GATE_STATE_CLOSING}

VARIABLES
    state,            \* gate -> gate_control_t.state
    last_operation,   \* gate -> gate_control_t.last_operation (seconds)
    operation_count,  \* gate -> gate_control_t.operation_count
    motor,            \* gate -> level last written to the gate's motor pin
    entered,          \* gate -> real time at which the movement in progress
                      \*         (OPENING / CLOSING) was commanded, else 0
    reset_read,       \* <<sensor_open, sensor_close>> as last read by
                      \* gate_reset_error
    run,              \* ghost, kept where tracked: gate -> real time at
                      \*         which its motor pin went high, -1 when
                      \*         the pin is low
    now,              \* real time, in polling periods since start
    slept,            \* gate -> its thread ran the loop body in this period
                      \*         and is in usleep until the next one
    ret,              \* the last public command that returned, and its
                      \* return value
    pc,               \* thread -> its position
    local,            \* thread -> the call it is in and what it read
    mutex,            \* gate -> the thread holding gate_control_t.mutex
    modbus_mutex,     \* the thread holding modbus_mutex
    stats,            \* modbus_stats_t stats
    current_retries,  \* current_retries
    slave,            \* slave address last set on ctx by modbus_set_slave
    device,           \* the camera's PLATE and CONFIDENCE registers
    calls,            \* number of bus client operations called so far
    bus_pc,           \* caller -> its position in a bus client operation
    bus_local,        \* caller -> arguments and locals of that operation
    bus_ret,          \* caller -> what its last operation returned
    passage,          \* statics of detect_passage_direction and
                      \* passage_state.last_trigger
    clock,            \* clock of the floor server, in half seconds
    direction,        \* what detect_passage_direction returned last
    sampled,          \* the phases of the sample sequence in progress
    gates_initialized,\* gates_initialized
    thread_running,   \* gate -> gate_control_t.thread_running
    exited,           \* gate -> gate_control_thread has returned
    cleanup_pc,       \* position of the caller of gate_system_cleanup
    exit_passage,     \* statics of detect_exit_movement (top floor) and its
                      \* passage_state.last_trigger
    message,          \* a byte string, its modbus_crc16 and the frame built
                      \* from both
    initialized       \* initialized (and ctx non-NULL) of the bus client

fields == <<state, last_operation, operation_count, motor, entered,
            reset_read, run>>
threads == <<pc, local, mutex>>
bus == <<modbus_mutex, stats, current_retries, slave, device, calls,
         bus_pc, bus_local, bus_ret>>
detector == <<passage, clock, direction, sampled>>
gates == <<fields, now, slept, ret, threads>>
lifecycle == <<gates_initialized, thread_running, exited, cleanup_pc>>
rest == <<lifecycle, exit_passage, message, initialized>>
others == <<bus, detector, rest>>
vars == <<state, last_operation, operation_count, motor, entered, reset_read,
          run,
          now, slept, ret, pc, local, mutex, bus, detector, rest>>

\* A polling thread is named by its gate.
Threads == Gates \cup Callers
NoThread == "none"
NoLocal == [op |-> "none", gate |-> "none", seen |-> "none"]
Returned(op, val) == [op |-> op, val |-> val]

\* time(NULL): whole seconds of the clock.
time_NULL == (now * POLL_SLEEP_MS) \div MS_PER_SEC

\* No motor run recorded; the motor pins are low.
NoRun == [tracked |-> FALSE, since |-> [g \in Gates |-> -1]]

\* run after level is written to the motor pin of gate g.
RunAfter(g, level) ==
    IF ~run.tracked THEN run
    ELSE [run EXCEPT !.since[g] = IF ~level THEN -1
                                  ELSE IF motor[g] THEN @ ELSE now]

\* ------------------------------------------------------------ polling loop

\* TimedOut comparing with >= instead of >.
TimedOutInclusive(t, last) == (t - last) >= (GATE_TIMEOUT_MS \div MS_PER_SEC)

\* TimedOut that never fires.
TimedOutNever(t, last) == FALSE

\* The safety timeout of the OPENING and CLOSING cases.
TimedOut(t, last) == (t - last) > (GATE_TIMEOUT_MS \div MS_PER_SEC)

\* The end-position sensor the moving state s waits for reads active.
Arrived(s, sensor_open, sensor_close) ==
    \/ s = GATE_STATE_OPENING /\ sensor_open
    \/ s = GATE_STATE_CLOSING /\ sensor_close

\* MotorFor whose ERROR case leaves the motor pin high.
MotorForRunningInError(s) == s \in Moving \/ s = GATE_STATE_ERROR

\* Level written to the motor pin by the case of state s.
MotorFor(s) == s \in Moving

\* Values gpio_read_gate_sensor may return to the polling loop of gate g
\* that found the gate in state s.
SensorReads(g, s) ==
    IF s \in Moving /\ operation_count[g] >= MaxOps
    THEN {rd \in BOOLEAN \X BOOLEAN : ~Arrived(s, rd[1], rd[2])}
    ELSE BOOLEAN \X BOOLEAN

\* TickTarget whose ERROR case returns the gate to CLOSED.
TickTargetRecovering(s, arrived, timedout) ==
    IF s = GATE_STATE_ERROR THEN GATE_STATE_CLOSED
    ELSE IF s \in Moving /\ timedout THEN GATE_STATE_ERROR
    ELSE IF arrived /\ s = GATE_STATE_OPENING THEN GATE_STATE_OPEN
    ELSE IF arrived /\ s = GATE_STATE_CLOSING THEN GATE_STATE_CLOSED
    ELSE s

\* State the case of state s leaves the gate in.
TickTarget(s, arrived, timedout) ==
    IF s \in Moving /\ timedout THEN GATE_STATE_ERROR
    ELSE IF arrived /\ s = GATE_STATE_OPENING THEN GATE_STATE_OPEN
    ELSE IF arrived /\ s = GATE_STATE_CLOSING THEN GATE_STATE_CLOSED
    ELSE s

\* TickApply counting every change of state, the timeout included.
TickApplyCountingTimeouts(g, s, rd) ==
    LET arrived == Arrived(s, rd[1], rd[2])
        last1 == IF arrived THEN time_NULL ELSE last_operation[g]
        s2 == TickTarget(s, arrived, TimedOut(time_NULL, last1))
    IN /\ motor' = [motor EXCEPT ![g] = MotorFor(s)]
       /\ run' = RunAfter(g, MotorFor(s))
       /\ state' = [state EXCEPT ![g] = IF s2 # s THEN s2 ELSE @]
       /\ last_operation' = [last_operation EXCEPT ![g] = last1]
       /\ operation_count' = [operation_count EXCEPT ![g] =
                                 IF s2 # s THEN @ + 1 ELSE @]
       /\ entered' = [entered EXCEPT ![g] = IF s2 # s THEN 0 ELSE @]
       /\ UNCHANGED reset_read

\* The switch of the loop body, taken on state s with the sensors rd.
TickApply(g, s, rd) ==
    LET arrived == Arrived(s, rd[1], rd[2])
        last1 == IF arrived THEN time_NULL ELSE last_operation[g]
        s2 == TickTarget(s, arrived, TimedOut(time_NULL, last1))
    IN /\ motor' = [motor EXCEPT ![g] = MotorFor(s)]
       /\ run' = RunAfter(g, MotorFor(s))
       /\ state' = [state EXCEPT ![g] = IF s2 # s THEN s2 ELSE @]
       /\ last_operation' = [last_operation EXCEPT ![g] = last1]
       /\ operation_count' = [operation_count EXCEPT ![g] =
                                 IF arrived THEN @ + 1 ELSE @]
       /\ entered' = [entered EXCEPT ![g] = IF s2 # s THEN 0 ELSE @]
       /\ UNCHANGED reset_read

\* One iteration of the loop body of gate_control_thread, under the mutex.
\* thread_running is read at line 50 without the mutex while
\* gate_system_cleanup may be writing it: the iteration may still run on
\* the value read before the write.
gate_control_thread(g) ==
    /\ ~exited[g]
    /\ ~slept[g]
    /\ \E rd \in SensorReads(g, state[g]) : TickApply(g, state[g], rd)
    /\ slept' = [slept EXCEPT ![g] = TRUE]
    /\ UNCHANGED <<now, ret, threads, others>>

\* d polling periods pass (usleep(100000) sleeps at least 100 ms): every
\* polling thread has run its body and wakes up again.
Advance(d) ==
    /\ \A g \in Gates : slept[g] \/ exited[g]
    /\ now + d <= MaxNow
    /\ now' = now + d
    /\ slept' = [g \in Gates |-> FALSE]
    /\ UNCHANGED <<fields, ret, threads, others>>

\* ---------------------------------------------------------------- commands

\* OpenTarget without the ERROR guard.
OpenTargetForced(s) ==
    IF s \in {GATE_STATE_OPEN, GATE_STATE_OPENING}
    THEN s ELSE GATE_STATE_OPENING

\* OpenTarget that starts opening from CLOSED only.
OpenTargetClosedOnly(s) ==
    IF s = GATE_STATE_CLOSED THEN GATE_STATE_OPENING ELSE s

\* State after the locked section of gate_open that found state s.
OpenTarget(s) ==
    IF s \in {GATE_STATE_ERROR, GATE_STATE_OPEN, GATE_STATE_OPENING}
    THEN s ELSE GATE_STATE_OPENING

OpenResult(s) == IF s = GATE_STATE_ERROR THEN -1 ELSE 0

\* CloseTarget that starts closing from OPEN only.
CloseTargetOpenOnly(s) ==
    IF s = GATE_STATE_OPEN THEN GATE_STATE_CLOSING ELSE s

\* State after the locked section of gate_close that found state s.
CloseTarget(s) ==
    IF s \in {GATE_STATE_ERROR, GATE_STATE_CLOSED, GATE_STATE_CLOSING}
    THEN s ELSE GATE_STATE_CLOSING

CloseResult(s) == IF s = GATE_STATE_ERROR THEN -1 ELSE 0

\* ResetTarget testing the open-sensor first.
ResetTargetOpenFirst(sensor_open, sensor_close) ==
    IF sensor_open THEN GATE_STATE_OPEN
    ELSE GATE_STATE_CLOSED

\* State chosen by gate_reset_error from the two sensors.
ResetTarget(sensor_open, sensor_close) ==
    IF sensor_close THEN GATE_STATE_CLOSED
    ELSE IF sensor_open THEN GATE_STATE_OPEN
    ELSE GATE_STATE_CLOSED

\* MoveApply in which a command that finds the gate already moving its way
\* stores time(NULL) in last_operation again.
MoveApplyRestartingTimeout(g, s, target) ==
    /\ state' = [state EXCEPT ![g] = IF target # s THEN target ELSE @]
    /\ last_operation' = [last_operation EXCEPT ![g] =
                             IF target # s \/ s \in Moving
                             THEN time_NULL ELSE @]
    /\ entered' = [entered EXCEPT ![g] = IF target # s THEN now ELSE @]
    /\ UNCHANGED <<operation_count, motor, reset_read, run>>

\* MoveApply that writes through entry_gate whatever the gate type.
MoveApplyOnEntryGate(g, s, target) ==
    /\ state' = [state EXCEPT ![GATE_ENTRY] = IF target # s THEN target ELSE @]
    /\ last_operation' = [last_operation EXCEPT ![GATE_ENTRY] =
                             IF target # s THEN time_NULL ELSE @]
    /\ entered' = [entered EXCEPT ![GATE_ENTRY] = IF target # s THEN now ELSE @]
    /\ UNCHANGED <<operation_count, motor, reset_read, run>>

\* The writes of gate_open / gate_close that found state s and go to state
\* target: none when the command is rejected or a no-op.
MoveApply(g, s, target) ==
    /\ state' = [state EXCEPT ![g] = IF target # s THEN target ELSE @]
    /\ last_operation' = [last_operation EXCEPT ![g] =
                             IF target # s THEN time_NULL ELSE @]
    /\ entered' = [entered EXCEPT ![g] = IF target # s THEN now ELSE @]
    /\ UNCHANGED <<operation_count, motor, reset_read, run>>

OpenApply(g, s) == MoveApply(g, s, OpenTarget(s))

CloseApply(g, s) == MoveApply(g, s, CloseTarget(s))

\* ResetApply without the test of line 308: the sensors are read and the
\* state is set whatever state s is.
ResetApplyAnyState(g, s, rd) ==
    /\ state' = [state EXCEPT ![g] = ResetTarget(rd[1], rd[2])]
    /\ last_operation' = [last_operation EXCEPT ![g] = time_NULL]
    /\ reset_read' = rd
    /\ UNCHANGED <<operation_count, motor, entered, run>>

\* The writes of gate_reset_error that found state s and, in ERROR, read
\* the sensors rd.
ResetApply(g, s, rd) ==
    /\ IF s = GATE_STATE_ERROR
       THEN /\ state' = [state EXCEPT ![g] = ResetTarget(rd[1], rd[2])]
            /\ last_operation' = [last_operation EXCEPT ![g] = time_NULL]
            /\ reset_read' = rd
       ELSE UNCHANGED <<state, last_operation, reset_read>>
    /\ UNCHANGED <<operation_count, motor, entered, run>>

gate_open(g) ==
    /\ gates_initialized
    /\ OpenApply(g, state[g])
    /\ ret' = Returned("gate_open", OpenResult(state[g]))
    /\ UNCHANGED <<now, slept, threads, others>>

gate_close(g) ==
    /\ gates_initialized
    /\ CloseApply(g, state[g])
    /\ ret' = Returned("gate_close", CloseResult(state[g]))
    /\ UNCHANGED <<now, slept, threads, others>>

gate_reset_error(g) ==
    /\ gates_initialized
    /\ \E rd \in BOOLEAN \X BOOLEAN : ResetApply(g, state[g], rd)
    /\ ret' = Returned("gate_reset_error", 0)
    /\ UNCHANGED <<now, slept, threads, others>>

\* Lines 220-223, 252-255, 298-301: a command called while gates_initialized
\* is false returns -1 and touches nothing.
CommandRejected(op) ==
    /\ ~gates_initialized
    /\ ret' = Returned(op, -1)
    /\ UNCHANGED <<fields, now, slept, threads, others>>

\* gate_emergency_open_all: gate_open on the entry gate, then on the exit
\* gate, each under its own mutex; the results are discarded.
EmergencyGate(p) == IF p = "idle" THEN GATE_ENTRY ELSE GATE_EXIT

gate_emergency_open_all(c) ==
    /\ gates_initialized
    /\ pc[c] \in {"idle", "emergency_exit"}
    /\ OpenApply(EmergencyGate(pc[c]), state[EmergencyGate(pc[c])])
    /\ pc' = [pc EXCEPT ![c] = IF @ = "idle" THEN "emergency_exit" ELSE "idle"]
    /\ UNCHANGED <<now, slept, ret, local, mutex, others>>

\* ----------------------------------------------------------------- cleanup

\* Line 50: the loop of gate_control_thread finds thread_running false
\* when it wakes up, and the thread returns.
ThreadExit(g) ==
    /\ ~exited[g]
    /\ ~slept[g]
    /\ ~thread_running[g]
    /\ exited' = [exited EXCEPT ![g] = TRUE]
    /\ UNCHANGED <<gates, bus, detector, gates_initialized, thread_running,
                   cleanup_pc, exit_passage, message, initialized>>

\* pthread_join that returns whether or not the thread has.
JoinWithoutWaiting(g) == TRUE

\* pthread_join(gate.control_thread, NULL), lines 199-205.
pthread_join(g) == exited[g]

\* A mutex after pthread_mutex_destroy.
Destroyed == "destroyed"

\* gate_system_cleanup, lines 189-217, statement by statement: the two
\* thread_running flags, the two joins, the two motors, then the mutexes
\* and gates_initialized.
gate_system_cleanup ==
    /\ gates_initialized
    /\ cleanup_pc # "done"
    /\ cleanup_pc \in {"join_entry"} => pthread_join(GATE_ENTRY)
    /\ cleanup_pc \in {"join_exit"} => pthread_join(GATE_EXIT)
    /\ cleanup_pc' =
           IF cleanup_pc = "idle" THEN "stop_exit"
           ELSE IF cleanup_pc = "stop_exit" THEN "join_entry"
           ELSE IF cleanup_pc = "join_entry" THEN "join_exit"
           ELSE IF cleanup_pc = "join_exit" THEN "motor_entry"
           ELSE IF cleanup_pc = "motor_entry" THEN "motor_exit"
           ELSE IF cleanup_pc = "motor_exit" THEN "destroy"
           ELSE "done"
    /\ thread_running' =
           IF cleanup_pc = "idle"
           THEN [thread_running EXCEPT ![GATE_ENTRY] = FALSE]
           ELSE IF cleanup_pc = "stop_exit"
           THEN [thread_running EXCEPT ![GATE_EXIT] = FALSE]
           ELSE thread_running
    /\ motor' =
           IF cleanup_pc = "motor_entry"
           THEN [motor EXCEPT ![GATE_ENTRY] = FALSE]
           ELSE IF cleanup_pc = "motor_exit"
           THEN [motor EXCEPT ![GATE_EXIT] = FALSE]
           ELSE motor
    /\ run' =
           IF cleanup_pc = "motor_entry" THEN RunAfter(GATE_ENTRY, FALSE)
           ELSE IF cleanup_pc = "motor_exit" THEN RunAfter(GATE_EXIT, FALSE)
           ELSE run
    /\ mutex' = IF cleanup_pc = "destroy"
                THEN [g \in Gates |-> Destroyed] ELSE mutex
    /\ gates_initialized' = (cleanup_pc # "destroy")
    /\ UNCHANGED <<state, last_operation, operation_count, entered,
                   reset_read, now, slept, ret, pc, local, exited, bus,
                   detector, exit_passage, message, initialized>>

\* ------------------------------------------- the locked sections, by steps

\* A lock that is taken without waiting for its holder.
LockWithoutWaiting(t, g) == mutex' = [mutex EXCEPT ![g] = t]

\* pthread_mutex_lock(&gate->mutex) by thread t.
pthread_mutex_lock(t, g) ==
    /\ mutex[g] = NoThread
    /\ mutex' = [mutex EXCEPT ![g] = t]

\* pthread_mutex_unlock(&gate->mutex).
pthread_mutex_unlock(t, g) == mutex' = [mutex EXCEPT ![g] = NoThread]

Commands == {"gate_open", "gate_close", "gate_get_state", "gate_reset_error"}

\* Caller c enters command op on gate g and takes the gate's mutex.
CallLock(c, op, g) ==
    /\ pc[c] = "idle"
    /\ pthread_mutex_lock(c, g)
    /\ pc' = [pc EXCEPT ![c] = "locked"]
    /\ local' = [local EXCEPT ![c] = [op |-> op, gate |-> g, seen |-> "none"]]
    /\ UNCHANGED <<fields, now, slept, ret, others>>

\* The thread reads gate->state (the operand of its if / switch).
ReadState(t) ==
    /\ pc[t] = "locked"
    /\ pc' = [pc EXCEPT ![t] = "read"]
    /\ local' = [local EXCEPT ![t].seen = state[local[t].gate]]
    /\ UNCHANGED <<fields, now, slept, ret, mutex, others>>

\* Caller c acts on what it read, unlocks and returns.
CallWrite(c) ==
    /\ pc[c] = "read"
    /\ LET g == local[c].gate
           s == local[c].seen
           op == local[c].op
       IN /\ CASE op = "gate_open" ->
                    OpenApply(g, s) /\ ret' = Returned(op, OpenResult(s))
               [] op = "gate_close" ->
                    CloseApply(g, s) /\ ret' = Returned(op, CloseResult(s))
               [] op = "gate_get_state" ->
                    UNCHANGED fields /\ ret' = Returned(op, s)
               [] op = "gate_reset_error" ->
                    /\ \E rd \in BOOLEAN \X BOOLEAN : ResetApply(g, s, rd)
                    /\ ret' = Returned(op, 0)
          /\ pthread_mutex_unlock(c, g)
    /\ pc' = [pc EXCEPT ![c] = "idle"]
    /\ local' = [local EXCEPT ![c] = NoLocal]
    /\ UNCHANGED <<now, slept, others>>

\* The polling thread of gate g wakes up and takes the mutex.
PollLock(g) ==
    /\ ~slept[g]
    /\ pc[g] = "idle"
    /\ pthread_mutex_lock(g, g)
    /\ pc' = [pc EXCEPT ![g] = "locked"]
    /\ local' = [local EXCEPT ![g] =
                    [op |-> "gate_control_thread", gate |-> g, seen |-> "none"]]
    /\ UNCHANGED <<fields, now, slept, ret, others>>

\* The polling thread runs the case of the state it read, unlocks and sleeps.
PollWrite(g) ==
    /\ pc[g] = "read"
    /\ \E rd \in SensorReads(g, local[g].seen) : TickApply(g, local[g].seen, rd)
    /\ pthread_mutex_unlock(g, g)
    /\ pc' = [pc EXCEPT ![g] = "idle"]
    /\ local' = [local EXCEPT ![g] = NoLocal]
    /\ slept' = [slept EXCEPT ![g] = TRUE]
    /\ UNCHANGED <<now, ret, others>>

\* ------------------------------------------------- bus client (MODBUS RTU)
\* src/src/common/modbus_client.c: the operations of the client of the
\* serial bus shared by the two cameras and the display.  A caller's
\* operation is taken step by step: call, lock, send of a request frame,
\* receipt of its response (or failure), and, in the status poll of
\* modbus_camera_read_plate, the sleep between two polls during which
\* modbus_mutex is released.

MODBUS_MAX_RETRIES == 3
MODBUS_ADDR_CAMERA_ENTRADA == 17
MODBUS_ADDR_CAMERA_SAIDA == 18
MODBUS_ADDR_DISPLAY == 32
Cameras == {MODBUS_ADDR_CAMERA_ENTRADA, MODBUS_ADDR_CAMERA_SAIDA}

LPR_STATUS_READY == 0
LPR_STATUS_PROCESSING == 1
LPR_STATUS_OK == 2
LPR_STATUS_ERROR == 3
MIN_PLATE_CONFIDENCE == 70

\* modbus_camera_read_plate: timeout used when timeout_ms <= 0, and the
\* period of the status poll.
DEFAULT_READ_TIMEOUT_MS == 2000
poll_interval == 100

\* Operations called, over all callers, in one behaviour.
MaxCalls == 2

\* Values the STATUS register is read as: the four defined ones and one
\* that is not defined.
StatusValues == {LPR_STATUS_READY, LPR_STATUS_PROCESSING, LPR_STATUS_OK,
                 LPR_STATUS_ERROR, 4}

\* timeout_ms arguments of modbus_camera_read_plate.
Timeouts == {-1, 0, 50, 100, 250, 300}

\* Contents of one PLATE register: "AB", "C1", "23", "4 ", two spaces,
\* DEL then "A", "A" then byte 200.
PlateRegValues == {16706, 17201, 12851, 13344, 8224, 32577, 16840}
ConfidenceValues == {50, 70, 85}
Devices == [plate_regs : [1..4 -> PlateRegValues],
            confidence : ConfidenceValues]
\* A camera that reads "ABC1234 " with confidence 85.
DefaultDevice == [plate_regs |-> <<16706, 17201, 12851, 13344>>,
                  confidence |-> 85]

ZeroStats == [requests_sent |-> 0, responses_received |-> 0, errors |-> 0,
              timeouts |-> 0, crc_errors |-> 0]
\* stats.<counter>++ (uint32_t; the counters stay below MaxCalls times the
\* requests of one operation, far from wrapping).
Count(s, counter) == [s EXCEPT ![counter] = @ + 1]

NoReading == [plate |-> <<>>, confidence |-> 0, success |-> FALSE]
NoBusLocal == [op |-> "none", addr |-> 0, timeout_arg |-> 0,
               timeout_ms |-> 0, elapsed |-> 0,
               status |-> -1, reg |-> "none", reading |-> NoReading,
               polls |-> 0, attempts |-> 0, read |-> {},
               before |-> ZeroStats, frame |-> <<>>,
               within |-> "none", log |-> <<>>]
BusReturned(op, val, reading) == [op |-> op, val |-> val, reading |-> reading]

\* Lines 295-299: the 8 bytes of the 4 plate registers, high byte first.
PlateBytesLowFirst(regs) ==
    [i \in 1..8 |-> IF i % 2 = 1 THEN regs[(i + 1) \div 2] % 256
                    ELSE (regs[i \div 2] \div 256) % 256]

PlateBytes(regs) ==
    [i \in 1..8 |-> IF i % 2 = 1 THEN (regs[(i + 1) \div 2] \div 256) % 256
                    ELSE regs[i \div 2] % 256]

\* Line 303.  plate[] is char: a byte above 127 is negative where char is
\* signed and above 126 where it is not, so it is invalid either way.
InvalidChar(b) == b < 32 \/ b > 126

\* Lines 302-307, and strlen at line 310: the text ends before the first
\* invalid byte (the terminator at plate[8] when there is none).
SanitizedLen(bytes) ==
    IF \E i \in 1..8 : InvalidChar(bytes[i])
    THEN (CHOOSE i \in 1..8 : /\ InvalidChar(bytes[i])
                              /\ \A j \in 1..(i - 1) : ~InvalidChar(bytes[j])) - 1
    ELSE 8

\* Lines 311-313.
RECURSIVE TrimSpaces(_)
TrimSpaces(text) ==
    IF Len(text) > 0 /\ text[Len(text)] = 32
    THEN TrimSpaces(SubSeq(text, 1, Len(text) - 1))
    ELSE text

\* Lines 295-313.
DecodePlate(regs) ==
    TrimSpaces(SubSeq(PlateBytes(regs), 1, SanitizedLen(PlateBytes(regs))))

\* Lines 331-332, with the inclusive threshold replaced by a strict one.
ReadingSuccessStrict(confidence, plate) ==
    confidence > MIN_PLATE_CONFIDENCE /\ Len(plate) >= 7

\* Lines 331-332.
ReadingSuccess(confidence, plate) ==
    confidence >= MIN_PLATE_CONFIDENCE /\ Len(plate) >= 7

\* Operations that build their frame themselves and use
\* modbus_send_raw_request / modbus_receive_confirmation.
RawOps == {"modbus_camera_trigger", "modbus_display_update"}
\* Operations that touch no counter of stats.
UncountedOps == {"modbus_camera_get_status", "modbus_camera_reset",
                 "modbus_test_device"}
\* Operations that count their request with its response.
LateCountedOps == {"modbus_display_update_floor",
                   "modbus_display_update_flags", "modbus_display_read"}
SimpleOps == RawOps \cup UncountedOps \cup LateCountedOps
DisplayOps == {"modbus_display_update"} \cup LateCountedOps
BusOps == SimpleOps \cup {"modbus_camera_read_plate"}

\* Addresses an operation may be called for.
AddressesOf(op) ==
    IF op \in DisplayOps THEN {MODBUS_ADDR_DISPLAY}
    ELSE IF op = "modbus_test_device" THEN Cameras \cup {MODBUS_ADDR_DISPLAY}
    ELSE Cameras

\* The register (or frame) the operation asks for first.
FirstRequest(op) ==
    IF op = "modbus_camera_read_plate" THEN "STATUS" ELSE op

\* Registers of the cameras and of the display (modbus_client.h 29-32, 54).
LPR_REG_STATUS == 0
LPR_REG_TRIGGER == 1
LPR_REG_PLATE == 2
LPR_REG_CONFIDENCE == 6
DISPLAY_REG_FLAGS == 12

\* (x >> 8) & 0xFF and x & 0xFF.
HighByte(x) == (x \div 256) % 256
LowByte(x) == x % 256

\* MODBUS_MATRICULA, "1234", as characters (system_config.h 47).
MODBUS_MATRICULA == <<49, 50, 51, 52>>

\* add_matricula_to_message, lines 53-80: the last four digits as two
\* 16-bit values, each appended high byte first.  The digits are below 256,
\* so the | of line 66 adds.
add_matricula_to_message(buffer) ==
    LET mat_len == Len(MODBUS_MATRICULA)
        digit(i) == MODBUS_MATRICULA[mat_len - 4 + i] - 48
        mat_part1 == digit(1) * 256 + digit(2)
        mat_part2 == digit(3) * 256 + digit(4) IN
    IF mat_len < 4 THEN buffer
    ELSE buffer \o <<HighByte(mat_part1), LowByte(mat_part1),
                     HighByte(mat_part2), LowByte(mat_part2)>>

\* The requests libmodbus builds for the slave set in the context, up to
\* their CRC: function 0x03, 0x06 and 0x10.
modbus_read_registers(addr, nb) ==
    <<slave, 3, HighByte(addr), LowByte(addr), HighByte(nb), LowByte(nb)>>
modbus_write_register(addr, value) ==
    <<slave, 6, HighByte(addr), LowByte(addr), HighByte(value),
      LowByte(value)>>
modbus_write_registers(addr, data) ==
    <<slave, 16, HighByte(addr), LowByte(addr), HighByte(Len(data)),
      LowByte(Len(data)), 2 * Len(data)>>
    \o [i \in 1..(2 * Len(data)) |->
           IF i % 2 = 1 THEN HighByte(data[(i + 1) \div 2])
           ELSE LowByte(data[i \div 2])]

\* The registers written to the display: every count at 0, no flag set.
DisplayData(n) == [i \in 1..n |-> 0]

\* The request of operation op at register reg to the device at addr, up
\* to its CRC: req[] of lines 172-183 and 432-449, and the libmodbus calls
\* of lines 249, 284, 319, 365, 383, 502, 528, 550 and 596.
RequestFrame(op, reg, addr) ==
    IF op = "modbus_camera_trigger"
    THEN add_matricula_to_message(
             <<addr, 6, HighByte(LPR_REG_TRIGGER), LowByte(LPR_REG_TRIGGER),
               0, 1>>)
    ELSE IF op = "modbus_display_update"
    THEN add_matricula_to_message(
             <<MODBUS_ADDR_DISPLAY, 16, 0, 0, 0, 13, 26>>
             \o [i \in 1..26 |->
                    IF i % 2 = 1 THEN HighByte(DisplayData(13)[(i + 1) \div 2])
                    ELSE LowByte(DisplayData(13)[i \div 2])])
    ELSE IF op = "modbus_camera_read_plate"
    THEN IF reg = "STATUS" THEN modbus_read_registers(LPR_REG_STATUS, 1)
         ELSE IF reg = "PLATE" THEN modbus_read_registers(LPR_REG_PLATE, 4)
         ELSE modbus_read_registers(LPR_REG_CONFIDENCE, 1)
    ELSE IF op = "modbus_camera_get_status"
    THEN modbus_read_registers(LPR_REG_STATUS, 1)
    ELSE IF op = "modbus_camera_reset"
    THEN modbus_write_register(LPR_REG_TRIGGER, 0)
    ELSE IF op = "modbus_display_update_floor"
    THEN modbus_write_registers(0, DisplayData(3))
    ELSE IF op = "modbus_display_update_flags"
    THEN modbus_write_register(DISPLAY_REG_FLAGS, 0)
    ELSE IF op = "modbus_display_read"
    THEN modbus_read_registers(0, 13)
    ELSE modbus_read_registers(0, 1)

\* pthread_mutex_lock(&modbus_mutex) that does not wait for the holder.
modbus_mutex_lock_anyway(t) == modbus_mutex' = t

modbus_mutex_lock(t) ==
    /\ modbus_mutex = NoThread
    /\ modbus_mutex' = t

modbus_mutex_unlock(t) == modbus_mutex' = NoThread

\* Ghost: the log of caller t inside modbus_camera_capture_and_read once
\* event has happened; a request sent is logged under the name of its
\* register, and a poll repeated is logged once.
Logged(t, event) ==
    LET log == bus_local[t].log IN
    IF bus_local[t].within = "none" THEN log
    ELSE IF Len(log) > 0 /\ log[Len(log)] = event THEN log
    ELSE Append(log, event)

\* A caller enters a public operation (the initialized / ctx / argument
\* checks passed); modbus_camera_read_plate replaces a timeout_ms <= 0 by
\* the default, lines 229-231.
BusCall(t, op, addr, timeout_ms) ==
    /\ initialized
    /\ bus_pc[t] = "idle"
    /\ bus_local[t].within = "none"
    /\ calls < MaxCalls
    /\ calls' = calls + 1
    /\ bus_pc' = [bus_pc EXCEPT ![t] = "lock"]
    /\ bus_local' = [bus_local EXCEPT ![t] =
           [NoBusLocal EXCEPT !.op = op, !.addr = addr,
                !.timeout_arg = timeout_ms,
                !.timeout_ms = IF op = "modbus_camera_read_plate"
                                  /\ timeout_ms <= 0
                               THEN DEFAULT_READ_TIMEOUT_MS ELSE timeout_ms,
                !.before = stats]]
    /\ UNCHANGED <<modbus_mutex, stats, current_retries, slave, device,
                   bus_ret, gates, detector, rest>>

\* pthread_mutex_lock(&modbus_mutex); modbus_set_slave(ctx, address).
BusLock(t) ==
    /\ bus_pc[t] = "lock"
    /\ modbus_mutex_lock(t)
    /\ slave' = bus_local[t].addr
    /\ bus_pc' = [bus_pc EXCEPT ![t] = "send"]
    /\ bus_local' = [bus_local EXCEPT
           ![t].reg = FirstRequest(bus_local[t].op)]
    /\ UNCHANGED <<stats, current_retries, device, calls, bus_ret, gates,
                   detector, rest>>

\* The operation returns val (and, for modbus_camera_read_plate, *result).
BusReturn(t, val, reading) ==
    /\ bus_pc' = [bus_pc EXCEPT ![t] = "idle"]
    /\ bus_ret' = [bus_ret EXCEPT ![t] =
           BusReturned(bus_local[t].op, val, reading)]

\* Outcomes of sending a request on ctx: it is sent or the send fails;
\* on the NULL ctx left by modbus_cleanup (line 141) libmodbus refuses
\* the call and it fails.
CanBeSent == IF initialized THEN BOOLEAN ELSE {FALSE}

\* stats when the request of a simple operation is about to be sent.
SendStats(op, s) ==
    IF op \in RawOps THEN Count(s, "requests_sent") ELSE s

\* stats when the send or the receive of a simple operation failed.
FailureStats(op, s) ==
    IF op \in UncountedOps THEN s ELSE Count(s, "errors")

\* stats when the response of a simple operation arrived.
SuccessStats(op, s) ==
    IF op \in RawOps THEN Count(s, "responses_received")
    ELSE IF op \in UncountedOps THEN s
    ELSE Count(Count(s, "requests_sent"), "responses_received")

\* What a simple operation returns when its response arrived; value is the
\* register read by modbus_camera_get_status.
SuccessValue(op, value) ==
    IF op = "modbus_camera_get_status" THEN value ELSE 0

\* A simple operation sends its one request frame; a failed send is handled
\* as a failed request: unlock and return -1.
SimpleSend(t) ==
    /\ bus_pc[t] = "send"
    /\ bus_local[t].op \in SimpleOps
    /\ \E sent \in CanBeSent :
         LET op == bus_local[t].op IN
         /\ bus_local' = [bus_local EXCEPT
                ![t].attempts = @ + 1,
                ![t].frame = RequestFrame(op, bus_local[t].reg,
                                          bus_local[t].addr),
                ![t].log = Logged(t, "TRIGGER")]
         /\ IF sent
            THEN /\ stats' = SendStats(op, stats)
                 /\ bus_pc' = [bus_pc EXCEPT ![t] = "recv"]
                 /\ UNCHANGED <<modbus_mutex, bus_ret>>
            ELSE /\ stats' = FailureStats(op, SendStats(op, stats))
                 /\ modbus_mutex_unlock(t)
                 /\ BusReturn(t, -1, NoReading)
    /\ UNCHANGED <<current_retries, slave, device, calls, gates, detector, rest>>

\* The response of a simple operation arrives, or the wait for it fails.
SimpleRecv(t) ==
    /\ bus_pc[t] = "recv"
    /\ bus_local[t].op \in SimpleOps
    /\ \E received \in BOOLEAN, value \in StatusValues :
         LET op == bus_local[t].op IN
         /\ stats' = IF received THEN SuccessStats(op, stats)
                     ELSE FailureStats(op, stats)
         /\ BusReturn(t, IF received THEN SuccessValue(op, value) ELSE -1,
                      NoReading)
         /\ bus_local' = [bus_local EXCEPT
                ![t].log = IF received THEN Logged(t, "confirmed") ELSE @]
    /\ modbus_mutex_unlock(t)
    /\ UNCHANGED <<current_retries, slave, device, calls, gates, detector,
                   rest>>

\* A failed read handled as lines 284-289 handle it for every register but
\* STATUS: count the error, unlock, return -1.
ReadFailedAborts(t, s) ==
    /\ stats' = Count(s, "errors")
    /\ modbus_mutex_unlock(t)
    /\ IF bus_local[t].reg = "STATUS"
       THEN bus_pc' = [bus_pc EXCEPT ![t] = "sleep"] /\ UNCHANGED bus_ret
       ELSE BusReturn(t, -1, NoReading)

\* modbus_camera_read_plate, a read of STATUS, PLATE or CONFIDENCE failed
\* (lines 249-251, 284-289, 319-322); s is stats before the failure.
ReadFailed(t, s) ==
    LET reg == bus_local[t].reg
        plate == bus_local[t].reading.plate IN
    /\ stats' = Count(s, "errors")
    /\ modbus_mutex_unlock(t)
    /\ IF reg = "STATUS"
       THEN bus_pc' = [bus_pc EXCEPT ![t] = "sleep"] /\ UNCHANGED bus_ret
       ELSE IF reg = "PLATE"
       THEN BusReturn(t, -1, NoReading)
       ELSE BusReturn(t, 0, [plate |-> plate, confidence |-> 0,
                             success |-> ReadingSuccess(0, plate)])

\* modbus_camera_read_plate counts and sends the request for the register
\* it is at (lines 247-249, 282-284, 317-319).
ReadPlateSend(t) ==
    /\ bus_pc[t] = "send"
    /\ bus_local[t].op = "modbus_camera_read_plate"
    /\ \E sent \in CanBeSent :
         LET reg == bus_local[t].reg IN
         /\ bus_local' = [bus_local EXCEPT
                ![t].attempts = @ + 1,
                ![t].polls = IF reg = "STATUS" THEN @ + 1 ELSE @,
                ![t].read = @ \cup {reg},
                ![t].frame = RequestFrame(bus_local[t].op, reg,
                                          bus_local[t].addr),
                ![t].log = Logged(t, reg)]
         /\ IF sent
            THEN /\ stats' = Count(stats, "requests_sent")
                 /\ bus_pc' = [bus_pc EXCEPT ![t] = "recv"]
                 /\ UNCHANGED <<modbus_mutex, bus_ret>>
            ELSE ReadFailed(t, Count(stats, "requests_sent"))
    /\ UNCHANGED <<current_retries, slave, device, calls, gates, detector, rest>>

\* modbus_camera_read_plate, the response to its request arrives or fails
\* to: lines 249-265 for STATUS, 284-313 for PLATE, 319-332 for CONFIDENCE.
ReadPlateRecv(t) ==
    /\ bus_pc[t] = "recv"
    /\ bus_local[t].op = "modbus_camera_read_plate"
    /\ \E received \in BOOLEAN, status_reg \in StatusValues :
         LET reg == bus_local[t].reg
             plate == bus_local[t].reading.plate IN
         IF ~received
         THEN ReadFailed(t, stats) /\ UNCHANGED bus_local
         ELSE
         /\ stats' = Count(stats, "responses_received")
         /\ IF reg = "STATUS"
            THEN /\ bus_local' = [bus_local EXCEPT
                        ![t].status = status_reg,
                        ![t].reg = IF status_reg = LPR_STATUS_OK
                                   THEN "PLATE" ELSE @,
                        ![t].log = IF status_reg = LPR_STATUS_OK
                                   THEN Logged(t, "OK") ELSE @]
                 /\ IF status_reg = LPR_STATUS_OK
                    THEN /\ bus_pc' = [bus_pc EXCEPT ![t] = "send"]
                         /\ UNCHANGED <<modbus_mutex, bus_ret>>
                    ELSE IF status_reg = LPR_STATUS_ERROR
                    THEN /\ modbus_mutex_unlock(t)
                         /\ BusReturn(t, -1, NoReading)
                    ELSE /\ modbus_mutex_unlock(t)
                         /\ bus_pc' = [bus_pc EXCEPT ![t] = "sleep"]
                         /\ UNCHANGED bus_ret
            ELSE IF reg = "PLATE"
            THEN /\ bus_local' = [bus_local EXCEPT
                        ![t].reading.plate = DecodePlate(device.plate_regs),
                        ![t].reg = "CONFIDENCE",
                        ![t].log = Logged(t, "plate")]
                 /\ bus_pc' = [bus_pc EXCEPT ![t] = "send"]
                 /\ UNCHANGED <<modbus_mutex, bus_ret>>
            ELSE /\ modbus_mutex_unlock(t)
                 /\ BusReturn(t, 0,
                        [plate |-> plate, confidence |-> device.confidence,
                         success |-> ReadingSuccess(device.confidence, plate)])
                 /\ UNCHANGED bus_local
    /\ UNCHANGED <<current_retries, slave, device, calls, gates, detector, rest>>

\* Line 245, with the loop entered once more when elapsed has reached
\* timeout_ms.
PollAgainInclusive(elapsed, timeout_ms) == elapsed <= timeout_ms

\* Line 245: while (elapsed < timeout_ms).
PollAgain(elapsed, timeout_ms) == elapsed < timeout_ms

\* Lines 268-271 and 245: usleep is over, the mutex is taken again, elapsed
\* advances and the loop condition is evaluated.
PollWake(t) ==
    /\ bus_pc[t] = "sleep"
    /\ modbus_mutex_lock(t)
    /\ bus_local' = [bus_local EXCEPT ![t].elapsed = @ + poll_interval]
    /\ bus_pc' = [bus_pc EXCEPT ![t] =
           IF PollAgain(bus_local[t].elapsed + poll_interval,
                        bus_local[t].timeout_ms)
           THEN "send" ELSE "timeout"]
    /\ UNCHANGED <<stats, current_retries, slave, device, calls, bus_ret,
                   gates, detector, rest>>

\* Lines 273-278 without stats.timeouts++.
PollTimeoutUncounted(t) ==
    /\ bus_pc[t] = "timeout"
    /\ modbus_mutex_unlock(t)
    /\ BusReturn(t, -1, NoReading)
    /\ UNCHANGED <<stats, current_retries, slave, device, calls, bus_local,
                   gates, detector, rest>>

\* Lines 273-278: the loop ended without break, so status is not OK.
PollTimeout(t) ==
    /\ bus_pc[t] = "timeout"
    /\ stats' = IF bus_local[t].status # LPR_STATUS_OK
                THEN Count(stats, "timeouts") ELSE stats
    /\ modbus_mutex_unlock(t)
    /\ BusReturn(t, -1, NoReading)
    /\ UNCHANGED <<current_retries, slave, device, calls, bus_local, gates,
                   detector, rest>>

\* modbus_camera_capture_and_read(camera, result), lines 344-354, with
\* result not NULL, enters modbus_camera_trigger (line 348).
CaptureTrigger(t, addr) ==
    /\ initialized
    /\ bus_pc[t] = "idle"
    /\ bus_local[t].within = "none"
    /\ calls < MaxCalls
    /\ calls' = calls + 1
    /\ bus_pc' = [bus_pc EXCEPT ![t] = "lock"]
    /\ bus_local' = [bus_local EXCEPT ![t] =
           [NoBusLocal EXCEPT !.op = "modbus_camera_trigger", !.addr = addr,
                !.within = "modbus_camera_capture_and_read",
                !.before = stats]]
    /\ UNCHANGED <<modbus_mutex, stats, current_retries, slave, device,
                   bus_ret, gates, detector, rest>>

\* Line 348 with the value returned by modbus_camera_trigger ignored.
TriggerIgnored(returned) == returned.op = "modbus_camera_trigger"

\* Line 348: modbus_camera_trigger(camera) returned 0.
TriggerSucceeded(returned) ==
    returned.op = "modbus_camera_trigger" /\ returned.val = 0

\* The caller is inside modbus_camera_capture_and_read and the operation
\* op it called has returned.
CaptureAfter(t, op) ==
    /\ bus_pc[t] = "idle"
    /\ bus_local[t].within = "modbus_camera_capture_and_read"
    /\ bus_local[t].op = op
    /\ bus_ret[t].op = op

\* Line 353: the trigger returned 0 and modbus_camera_read_plate(camera,
\* result, 2000) is entered.
CaptureRead(t) ==
    /\ CaptureAfter(t, "modbus_camera_trigger")
    /\ TriggerSucceeded(bus_ret[t])
    /\ initialized
    /\ bus_pc' = [bus_pc EXCEPT ![t] = "lock"]
    /\ bus_local' = [bus_local EXCEPT ![t] =
           [NoBusLocal EXCEPT !.op = "modbus_camera_read_plate",
                !.addr = bus_local[t].addr,
                !.timeout_arg = DEFAULT_READ_TIMEOUT_MS,
                !.timeout_ms = DEFAULT_READ_TIMEOUT_MS,
                !.within = bus_local[t].within,
                !.log = bus_local[t].log,
                !.before = stats]]
    /\ UNCHANGED <<modbus_mutex, stats, current_retries, slave, device,
                   calls, bus_ret, gates, detector, rest>>

\* Lines 348-350: the trigger did not return 0 and so
\* modbus_camera_capture_and_read returns -1.
CaptureFailed(t) ==
    /\ CaptureAfter(t, "modbus_camera_trigger")
    /\ ~TriggerSucceeded(bus_ret[t])
    /\ bus_local' = [bus_local EXCEPT ![t].within = "none"]
    /\ bus_ret' = [bus_ret EXCEPT ![t] =
           BusReturned("modbus_camera_capture_and_read", -1, NoReading)]
    /\ UNCHANGED <<modbus_mutex, stats, current_retries, slave, device,
                   calls, bus_pc, gates, detector, rest>>

\* Line 353: modbus_camera_capture_and_read returns what
\* modbus_camera_read_plate returned.
CaptureDone(t) ==
    /\ CaptureAfter(t, "modbus_camera_read_plate")
    /\ bus_local' = [bus_local EXCEPT ![t].within = "none"]
    /\ bus_ret' = [bus_ret EXCEPT ![t] =
           BusReturned("modbus_camera_capture_and_read", bus_ret[t].val,
                       bus_ret[t].reading)]
    /\ UNCHANGED <<modbus_mutex, stats, current_retries, slave, device,
                   calls, bus_pc, gates, detector, rest>>

\* modbus_set_retries, lines 703-711.
modbus_set_retries(retries) ==
    /\ ~(retries < 0 \/ retries > 10)
    /\ current_retries' = retries
    /\ UNCHANGED <<modbus_mutex, stats, slave, device, calls, bus_pc,
                   bus_local, bus_ret, gates, detector, rest>>

\* modbus_init: stats zeroed, retries at their default, no caller in the
\* client.
modbus_init ==
    /\ modbus_mutex = NoThread
    /\ stats = ZeroStats
    /\ current_retries = MODBUS_MAX_RETRIES
    /\ slave = 0
    /\ calls = 0
    /\ bus_pc = [t \in Callers |-> "idle"]
    /\ bus_local = [t \in Callers |-> NoBusLocal]
    /\ bus_ret = [t \in Callers |-> BusReturned("modbus_init", 0, NoReading)]
    /\ initialized = TRUE

\* modbus_reset_stats, lines 647-653.
modbus_reset_stats ==
    /\ modbus_mutex = NoThread
    /\ stats' = ZeroStats
    /\ UNCHANGED <<modbus_mutex, current_retries, slave, device, calls,
                   bus_pc, bus_local, bus_ret, gates, detector, rest>>

\* modbus_cleanup, lines 131-148: under the mutex the context is closed
\* and freed and initialized is cleared.
modbus_cleanup ==
    /\ initialized
    /\ modbus_mutex = NoThread
    /\ initialized' = FALSE
    /\ UNCHANGED <<bus, gates, detector, lifecycle, exit_passage, message>>

\* modbus_init called again after modbus_cleanup, lines 86-129, the
\* connection succeeding: a new context, and stats zeroed at line 123.
modbus_init_again ==
    /\ ~initialized
    /\ stats' = ZeroStats
    /\ initialized' = TRUE
    /\ UNCHANGED <<modbus_mutex, current_retries, slave, device, calls,
                   bus_pc, bus_local, bus_ret, gates, detector, lifecycle,
                   exit_passage, message>>

\* ------------------------------------------- passage direction detector
\* src/src/servidor_andar1/main.c: detect_passage_direction, called by
\* passage_detection_thread with the two passage sensors sampled every
\* 50 ms.

STATE_IDLE == "STATE_IDLE"
STATE_S1_ACTIVE == "STATE_S1_ACTIVE"
STATE_S2_ACTIVE == "STATE_S2_ACTIVE"
STATE_BOTH_ACTIVE == "STATE_BOTH_ACTIVE"

\* Line 94: seconds after passage_state.last_trigger beyond which the
\* sequence in progress is dropped.
STALE_AFTER_S == 5

\* The floor server's clock advances in steps of half a second (the
\* samples are 50 ms apart, lines 197-231).
ClockPerSecond == 2

\* Horizon of the floor server's clock, in half seconds.
MaxClock == 26

\* time(NULL) at clock c: whole seconds.
Seconds(c) == c \div ClockPerSecond

\* Line 94, with the window one second shorter.
StaleEarly(t, last_trigger) == t - last_trigger > STALE_AFTER_S - 1

\* Line 94.
Stale(t, last_trigger) == t - last_trigger > STALE_AFTER_S

\* Lines 99-147, a single-active state kept when both sensors go inactive.
PassageSwitchHoldsSingle(st, entered_from_s1, s1, s2) ==
    LET same == [state |-> st, entered_from_s1 |-> entered_from_s1,
                 direction |-> 0, triggered |-> FALSE] IN
    IF st = "STATE_IDLE"
    THEN IF s1 /\ ~s2
         THEN [same EXCEPT !.state = "STATE_S1_ACTIVE",
                           !.entered_from_s1 = TRUE, !.triggered = TRUE]
         ELSE IF ~s1 /\ s2
         THEN [same EXCEPT !.state = "STATE_S2_ACTIVE",
                           !.entered_from_s1 = FALSE, !.triggered = TRUE]
         ELSE same
    ELSE IF st \in {"STATE_S1_ACTIVE", "STATE_S2_ACTIVE"}
    THEN IF s1 /\ s2 THEN [same EXCEPT !.state = "STATE_BOTH_ACTIVE"]
         ELSE same
    ELSE IF ~s1 /\ s2 /\ entered_from_s1
         THEN [same EXCEPT !.state = "STATE_S2_ACTIVE", !.direction = 1]
         ELSE IF s1 /\ ~s2 /\ ~entered_from_s1
         THEN [same EXCEPT !.state = "STATE_S1_ACTIVE", !.direction = -1]
         ELSE IF ~s1 /\ ~s2 THEN [same EXCEPT !.state = "STATE_IDLE"]
         ELSE same

\* Lines 99-147, STATE_BOTH_ACTIVE emitting on any single sensor left.
PassageSwitchAnySingle(st, entered_from_s1, s1, s2) ==
    LET same == [state |-> st, entered_from_s1 |-> entered_from_s1,
                 direction |-> 0, triggered |-> FALSE] IN
    IF st = "STATE_IDLE"
    THEN IF s1 /\ ~s2
         THEN [same EXCEPT !.state = "STATE_S1_ACTIVE",
                           !.entered_from_s1 = TRUE, !.triggered = TRUE]
         ELSE IF ~s1 /\ s2
         THEN [same EXCEPT !.state = "STATE_S2_ACTIVE",
                           !.entered_from_s1 = FALSE, !.triggered = TRUE]
         ELSE same
    ELSE IF st \in {"STATE_S1_ACTIVE", "STATE_S2_ACTIVE"}
    THEN IF s1 /\ s2 THEN [same EXCEPT !.state = "STATE_BOTH_ACTIVE"]
         ELSE IF ~s1 /\ ~s2 THEN [same EXCEPT !.state = "STATE_IDLE"]
         ELSE same
    ELSE IF ~s1 /\ s2
         THEN [same EXCEPT !.state = "STATE_S2_ACTIVE",
                           !.direction = IF entered_from_s1 THEN 1 ELSE -1]
         ELSE IF s1 /\ ~s2
         THEN [same EXCEPT !.state = "STATE_S1_ACTIVE",
                           !.direction = IF entered_from_s1 THEN 1 ELSE -1]
         ELSE IF ~s1 /\ ~s2 THEN [same EXCEPT !.state = "STATE_IDLE"]
         ELSE same

\* Lines 99-147: the switch, from state st with flag entered_from_s1 on
\* the sample (s1, s2).  triggered: passage_state.last_trigger is set.
PassageSwitch(st, entered_from_s1, s1, s2) ==
    LET same == [state |-> st, entered_from_s1 |-> entered_from_s1,
                 direction |-> 0, triggered |-> FALSE] IN
    IF st = STATE_IDLE
    THEN IF s1 /\ ~s2
         THEN [same EXCEPT !.state = STATE_S1_ACTIVE,
                           !.entered_from_s1 = TRUE, !.triggered = TRUE]
         ELSE IF ~s1 /\ s2
         THEN [same EXCEPT !.state = STATE_S2_ACTIVE,
                           !.entered_from_s1 = FALSE, !.triggered = TRUE]
         ELSE same
    ELSE IF st \in {STATE_S1_ACTIVE, STATE_S2_ACTIVE}
    THEN IF s1 /\ s2 THEN [same EXCEPT !.state = STATE_BOTH_ACTIVE]
         ELSE IF ~s1 /\ ~s2 THEN [same EXCEPT !.state = STATE_IDLE]
         ELSE same
    ELSE IF ~s1 /\ s2 /\ entered_from_s1
         THEN [same EXCEPT !.state = STATE_S2_ACTIVE, !.direction = 1]
         ELSE IF s1 /\ ~s2 /\ ~entered_from_s1
         THEN [same EXCEPT !.state = STATE_S1_ACTIVE, !.direction = -1]
         ELSE IF ~s1 /\ ~s2 THEN [same EXCEPT !.state = STATE_IDLE]
         ELSE same

\* Which phase of a crossing the samples taken so far form: S1 alone
\* ("up1"), then both ("up2"), then S2 alone ("up3"), or the mirror image
\* ("down1", "down2", "down3"); a crossing starts on a single sensor
\* sampled while the detector is in STATE_IDLE.
NextPhase(phase, st, s1, s2) ==
    LET only1 == s1 /\ ~s2
        only2 == ~s1 /\ s2
        both == s1 /\ s2 IN
    IF phase = "up1" /\ only1 THEN "up1"
    ELSE IF phase \in {"up1", "up2"} /\ both THEN "up2"
    ELSE IF phase \in {"up2", "up3"} /\ only2 THEN "up3"
    ELSE IF phase = "down1" /\ only2 THEN "down1"
    ELSE IF phase \in {"down1", "down2"} /\ both THEN "down2"
    ELSE IF phase \in {"down2", "down3"} /\ only1 THEN "down3"
    ELSE IF st = STATE_IDLE /\ only1 THEN "up1"
    ELSE IF st = STATE_IDLE /\ only2 THEN "down1"
    ELSE "none"

\* What the samples so far amount to.  phase, events, t0: the crossing in
\* progress, the events it emitted and the clock at its first sample.
\* single_only: since the detector was last (treated as) idle every sample
\* had exactly one sensor active; released: the sample just taken had both
\* sensors inactive and ended such a run.  changed: the clock when
\* passage.state last changed.  emitted: the direction events returned
\* since the detector was last in STATE_IDLE, counted up to MaxEvents.
NoSequence == [phase |-> "none", events |-> <<>>, t0 |-> 0,
               single_only |-> FALSE, released |-> FALSE, changed |-> 0,
               emitted |-> 0]

\* Direction events counted between two visits to STATE_IDLE.
MaxEvents == 2

\* One iteration of passage_detection_thread (lines 197-231): the sensors
\* are read and detect_passage_direction(s1, s2) runs (lines 81-150).
detect_passage_direction(s1, s2) ==
    LET stale == Stale(Seconds(clock), passage.last_trigger)
        st == IF stale THEN STATE_IDLE ELSE passage.state
        flag == IF stale THEN FALSE ELSE passage.entered_from_s1
        out == PassageSwitch(st, flag, s1, s2)
        phase == NextPhase(sampled.phase, passage.state, s1, s2)
        starts == phase \in {"up1", "down1"} /\ sampled.phase # phase
        emitted == IF out.direction = 0 THEN <<>> ELSE <<out.direction>>
        sequence == IF phase = "none" THEN NoSequence
                    ELSE IF starts
                    THEN [NoSequence EXCEPT !.phase = phase,
                                            !.events = emitted, !.t0 = clock]
                    ELSE [sampled EXCEPT !.phase = phase,
                                         !.events = @ \o emitted] IN
    /\ passage' = [state |-> out.state,
                   entered_from_s1 |-> out.entered_from_s1,
                   last_trigger |-> IF out.triggered THEN Seconds(clock)
                                    ELSE passage.last_trigger]
    /\ direction' = out.direction
    /\ sampled' = [sequence EXCEPT
                      !.single_only = /\ s1 # s2
                                      /\ st = STATE_IDLE \/ sampled.single_only,
                      !.released = ~s1 /\ ~s2 /\ sampled.single_only,
                      !.changed = IF out.state # passage.state THEN clock
                                  ELSE sampled.changed,
                      !.emitted =
                          IF out.state = STATE_IDLE THEN 0
                          ELSE LET before == IF st = STATE_IDLE THEN 0
                                             ELSE sampled.emitted
                                   n == IF out.direction # 0
                                        THEN before + 1 ELSE before
                               IN IF n > MaxEvents THEN MaxEvents ELSE n]
    /\ UNCHANGED <<clock, gates, bus, rest>>

\* Half a second of the floor server's clock passes.
ClockTick ==
    /\ clock < MaxClock
    /\ clock' = clock + 1
    /\ UNCHANGED <<passage, direction, sampled, gates, bus, rest>>

\* The statics of detect_passage_direction and passage_state (line 36) at
\* program start; time(NULL) is far beyond the stale window.
passage_init ==
    /\ passage = [state |-> STATE_IDLE, entered_from_s1 |-> FALSE,
                  last_trigger |-> 0]
    /\ clock = (STALE_AFTER_S + 1) * ClockPerSecond
    /\ direction = 0
    /\ sampled = NoSequence

\* ---------------------------------------------- exit detector (top floor)
\* src/src/servidor_andar2/main.c: detect_exit_movement.

\* Lines 95-129 with STATE_S2_ACTIVE going on to STATE_BOTH_ACTIVE when
\* both sensors are active, as in detect_passage_direction.
ExitSwitchLikePassage(st, s1, s2) ==
    LET same == [state |-> st, movement_detected |-> FALSE,
                 triggered |-> FALSE] IN
    IF st = STATE_IDLE
    THEN IF s1 /\ ~s2
         THEN [same EXCEPT !.state = STATE_S1_ACTIVE, !.triggered = TRUE]
         ELSE same
    ELSE IF st = STATE_S1_ACTIVE
    THEN IF s1 /\ s2 THEN [same EXCEPT !.state = STATE_BOTH_ACTIVE]
         ELSE IF ~s1 /\ ~s2 THEN [same EXCEPT !.state = STATE_IDLE]
         ELSE same
    ELSE IF st = STATE_BOTH_ACTIVE
    THEN IF ~s1 /\ s2
         THEN [same EXCEPT !.state = STATE_S2_ACTIVE,
                           !.movement_detected = TRUE]
         ELSE IF ~s1 /\ ~s2 THEN [same EXCEPT !.state = STATE_IDLE]
         ELSE same
    ELSE IF s1 /\ s2 THEN [same EXCEPT !.state = STATE_BOTH_ACTIVE]
         ELSE IF ~s1 /\ ~s2 THEN [same EXCEPT !.state = STATE_IDLE]
         ELSE same

\* Lines 95-129: the switch, from state st on the sample (s1, s2);
\* triggered tells that last_trigger is set to now (line 99).
ExitSwitch(st, s1, s2) ==
    LET same == [state |-> st, movement_detected |-> FALSE,
                 triggered |-> FALSE] IN
    IF st = STATE_IDLE
    THEN IF s1 /\ ~s2
         THEN [same EXCEPT !.state = STATE_S1_ACTIVE, !.triggered = TRUE]
         ELSE same
    ELSE IF st = STATE_S1_ACTIVE
    THEN IF s1 /\ s2 THEN [same EXCEPT !.state = STATE_BOTH_ACTIVE]
         ELSE IF ~s1 /\ ~s2 THEN [same EXCEPT !.state = STATE_IDLE]
         ELSE same
    ELSE IF st = STATE_BOTH_ACTIVE
    THEN IF ~s1 /\ s2
         THEN [same EXCEPT !.state = STATE_S2_ACTIVE,
                           !.movement_detected = TRUE]
         ELSE IF ~s1 /\ ~s2 THEN [same EXCEPT !.state = STATE_IDLE]
         ELSE same
    ELSE IF ~s1 /\ ~s2 THEN [same EXCEPT !.state = STATE_IDLE]
         ELSE same

\* The sensors active in a sample.
Pattern(s1, s2) ==
    IF s1 /\ s2 THEN "both"
    ELSE IF s1 THEN "s1" ELSE IF s2 THEN "s2" ELSE "none"

\* detect_exit_movement(s1, s2), lines 79-132. movement_detected is the
\* value returned. Ghost fields: first is the pattern of the first sample
\* with a sensor active since the last sample with none, path the states
\* entered since the detector was last in STATE_IDLE (line 92 included),
\* reported whether a movement was returned since then.
detect_exit_movement(s1, s2) ==
    LET now_s == Seconds(clock)
        stale == Stale(now_s, exit_passage.last_trigger)
        st    == IF stale THEN STATE_IDLE ELSE exit_passage.state
        out   == ExitSwitch(st, s1, s2)
        sofar == IF st = STATE_IDLE THEN <<>> ELSE exit_passage.path
    IN
    /\ exit_passage' =
         [state |-> out.state,
          last_trigger |-> IF out.triggered THEN now_s
                           ELSE exit_passage.last_trigger,
          movement_detected |-> out.movement_detected,
          first |-> IF ~s1 /\ ~s2 THEN "none"
                    ELSE IF exit_passage.first = "none"
                         THEN Pattern(s1, s2)
                         ELSE exit_passage.first,
          path |-> IF out.state = STATE_IDLE THEN <<>>
                   ELSE IF out.state # st THEN Append(sofar, out.state)
                   ELSE sofar,
          reported |-> /\ out.state # STATE_IDLE
                       /\ \/ out.movement_detected
                          \/ st # STATE_IDLE /\ exit_passage.reported]
    /\ UNCHANGED <<gates, bus, detector, lifecycle, message, initialized>>

\* The static state of detect_exit_movement (line 85) and passage_state
\* (line 35) at program start.
exit_passage_init ==
    exit_passage = [state |-> STATE_IDLE, last_trigger |-> 0,
                    movement_detected |-> FALSE, first |-> "none",
                    path |-> <<>>, reported |-> FALSE]

\* ------------------------------------------------------------- checksum
\* src/src/common/modbus_client.c: modbus_crc16 and the frames built with
\* it.

\* crc = 0xFFFF, line 34, and no byte of data taken yet.
NoMessage == [data |-> <<>>, crc |-> 65535, i |-> 0, frame |-> <<>>]

\* a ^ b on unsigned integers.
RECURSIVE BitXor(_, _)
BitXor(a, b) ==
    IF a = 0 THEN b
    ELSE IF b = 0 THEN a
    ELSE ((a + b) % 2) + 2 * BitXor(a \div 2, b \div 2)

\* Lines 40-44 with the polynomial XORed in when the low bit is clear.
CrcBitInverted(crc) ==
    IF crc % 2 = 0 THEN BitXor(crc \div 2, 40961) ELSE crc \div 2

\* Lines 40-44: one shift to the right, 0xA001 XORed in when the bit
\* shifted out is set.
CrcBit(crc) ==
    IF crc % 2 = 1 THEN BitXor(crc \div 2, 40961) ELSE crc \div 2

\* Lines 39-45: the loop over the 8 bits, n of them done.
RECURSIVE CrcBits(_, _)
CrcBits(crc, n) ==
    IF n = 0 THEN crc ELSE CrcBit(CrcBits(crc, n - 1))

\* Lines 186-188 and 452-454: the CRC is appended to the request.
AppendCrc(req, crc) == req \o <<LowByte(crc), HighByte(crc)>>

\* Longest byte string drawn from CrcBytesDrawn, and the bytes it is made
\* of.
MaxCrcLen == 3
CrcBytesDrawn == {0, 1, 17, 128, 255}

\* The byte strings given to modbus_crc16: every string of CrcBytesDrawn up
\* to MaxCrcLen bytes, and the requests that modbus_camera_trigger and
\* modbus_display_update build.
CrcInputs ==
    UNION {[1..n -> CrcBytesDrawn] : n \in 0..MaxCrcLen}
    \cup {RequestFrame("modbus_camera_trigger", "none", addr) :
             addr \in Cameras}
    \cup {RequestFrame("modbus_display_update", "none",
                       MODBUS_ADDR_DISPLAY)}

\* modbus_crc16, lines 36-46: one iteration of the loop over the bytes.
modbus_crc16 ==
    /\ message.i < Len(message.data)
    /\ message' = [message EXCEPT
           !.crc = CrcBits(BitXor(message.crc, message.data[message.i + 1]),
                           8),
           !.i = @ + 1]
    /\ UNCHANGED <<gates, bus, detector, lifecycle, exit_passage,
                   initialized>>

\* Lines 185-188: modbus_crc16 has returned and the frame is completed
\* with its result.
BuildFrame ==
    /\ message.i = Len(message.data)
    /\ message.frame = <<>>
    /\ message' = [message EXCEPT
           !.frame = AppendCrc(message.data, message.crc)]
    /\ UNCHANGED <<gates, bus, detector, lifecycle, exit_passage,
                   initialized>>

\* ------------------------------------------------------------ specification

\* gate_system_init: both gates CLOSED, motors off, no thread in a locked
\* section.
gate_system_init ==
    /\ state = [g \in Gates |-> GATE_STATE_CLOSED]
    /\ last_operation = [g \in Gates |-> 0]
    /\ operation_count = [g \in Gates |-> 0]
    /\ motor = [g \in Gates |-> FALSE]
    /\ entered = [g \in Gates |-> 0]
    /\ reset_read = <<FALSE, FALSE>>
    /\ now = 0
    /\ slept = [g \in Gates |-> FALSE]
    /\ ret = Returned("gate_system_init", 0)
    /\ pc = [t \in Threads |-> "idle"]
    /\ local = [t \in Threads |-> NoLocal]
    /\ mutex = [g \in Gates |-> NoThread]
    /\ gates_initialized = TRUE
    /\ thread_running = [g \in Gates |-> TRUE]
    /\ exited = [g \in Gates |-> FALSE]
    /\ cleanup_pc = "idle"

\* The state after gate_system_init and modbus_init, the entry camera
\* holding DefaultDevice.
Init ==
    /\ gate_system_init
    /\ run = NoRun
    /\ modbus_init
    /\ device = DefaultDevice
    /\ passage_init
    /\ exit_passage_init
    /\ message = NoMessage

\* The entry gate under every timing of its commands, the polling threads
\* running strictly every 100 ms; the exit gate is left alone.
Next ==
    \/ \E g \in Gates : gate_control_thread(g)
    \/ Advance(1)
    \/ gate_open(GATE_ENTRY)
    \/ gate_close(GATE_ENTRY)
    \/ gate_reset_error(GATE_ENTRY)

Spec == Init /\ [][Next]_vars

\* Both gates, the polling threads waking up once per second: the exit gate
\* under every command, the entry gate opened by gate_emergency_open_all
\* only.
NextBoth ==
    \/ \E g \in Gates : gate_control_thread(g)
    \/ Advance(MS_PER_SEC \div POLL_SLEEP_MS)
    \/ gate_open(GATE_EXIT)
    \/ gate_close(GATE_EXIT)
    \/ \E g \in Gates : gate_reset_error(g)
    \/ gate_emergency_open_all("caller1")

SpecBoth == Init /\ [][NextBoth]_vars

\* Both gates under every command that takes a gate type.
NextGates ==
    \/ \E g \in Gates : gate_control_thread(g)
    \/ Advance(MS_PER_SEC \div POLL_SLEEP_MS)
    \/ \E g \in Gates : gate_open(g)
    \/ \E g \in Gates : gate_close(g)
    \/ \E g \in Gates : gate_reset_error(g)

SpecGates == Init /\ [][NextGates]_vars

\* The entry gate under gate_open and gate_close at any moment, the
\* sensor that a moving gate waits for never active, and the time at
\* which each motor was switched on recorded.
InitRun ==
    /\ gate_system_init
    /\ run = [NoRun EXCEPT !.tracked = TRUE]
    /\ modbus_init
    /\ device = DefaultDevice
    /\ passage_init
    /\ exit_passage_init
    /\ message = NoMessage

NextRun ==
    \/ \E g \in Gates :
         /\ gate_control_thread(g)
         /\ operation_count' = operation_count
    \/ Advance(1)
    \/ gate_open(GATE_ENTRY)
    \/ gate_close(GATE_ENTRY)

SpecRun == InitRun /\ [][NextRun]_vars

\* Polling periods within which a movement is over and its motor off: the
\* timeout fires less than GATE_TIMEOUT_MS plus one second after the
\* command, and the motor goes low one tick later.
MovementPeriods == ((GATE_TIMEOUT_MS + MS_PER_SEC) \div POLL_SLEEP_MS) + 2

\* The caller gives the entry gate its next command once the movement
\* before is over and the motor off, and early enough for the movement to
\* end before MaxNow.
MayCommand(g) ==
    /\ state[g] \notin Moving
    /\ ~motor[g]
    /\ now + MovementPeriods <= MaxNow

\* One movement at a time: a command, then the polling loop alone.
NextProgress ==
    \/ \E g \in Gates : gate_control_thread(g)
    \/ Advance(1)
    \/ MayCommand(GATE_ENTRY) /\ gate_open(GATE_ENTRY)
    \/ MayCommand(GATE_ENTRY) /\ gate_close(GATE_ENTRY)

\* The polling threads keep running (each iteration ends, usleep returns)
\* and time passes.
FairSpecProgress ==
    /\ Init
    /\ [][NextProgress]_vars
    /\ \A g \in Gates : WF_vars(gate_control_thread(g))
    /\ WF_vars(Advance(1))

\* The locked sections step by step: two callers of the entry gate's
\* commands and its polling thread contend for its mutex, the polling threads
\* waking up once per second.
NextMutex ==
    \/ \E c \in Callers, op \in Commands : CallLock(c, op, GATE_ENTRY)
    \/ \E t \in Threads : ReadState(t)
    \/ \E c \in Callers : CallWrite(c)
    \/ \E g \in Gates : PollLock(g)
    \/ \E g \in Gates : PollWrite(g)
    \/ Advance(MS_PER_SEC \div POLL_SLEEP_MS)

SpecMutex == Init /\ [][NextMutex]_vars

\* Shutdown: both polling threads waking up once per second, the entry
\* gate under gate_open and gate_close, and gate_system_cleanup called at
\* any moment.
NextCleanup ==
    \/ \E g \in Gates : gate_control_thread(g)
    \/ \E g \in Gates : ThreadExit(g)
    \/ Advance(MS_PER_SEC \div POLL_SLEEP_MS)
    \/ gate_open(GATE_ENTRY)
    \/ gate_close(GATE_ENTRY)
    \/ \E op \in {"gate_open", "gate_close"} : CommandRejected(op)
    \/ gate_system_cleanup

SpecCleanup == Init /\ [][NextCleanup]_vars

\* The bus client under two concurrent callers of every operation.
NextBus ==
    \/ \E t \in Callers, op \in BusOps, addr \in Cameras \cup {MODBUS_ADDR_DISPLAY} :
         /\ addr \in AddressesOf(op)
         /\ BusCall(t, op, addr, poll_interval + poll_interval)
    \/ \E t \in Callers : BusLock(t)
    \/ \E t \in Callers : SimpleSend(t)
    \/ \E t \in Callers : SimpleRecv(t)
    \/ \E t \in Callers : ReadPlateSend(t)
    \/ \E t \in Callers : ReadPlateRecv(t)
    \/ \E t \in Callers : PollWake(t)
    \/ \E t \in Callers : PollTimeout(t)

SpecBus == Init /\ [][NextBus]_vars

\* The bus client with one caller and one call: every operation, every
\* timeout of modbus_camera_read_plate, and modbus_set_retries.
NextClient ==
    \/ \E op \in BusOps, addr \in Cameras \cup {MODBUS_ADDR_DISPLAY},
          timeout_ms \in Timeouts :
         /\ addr \in AddressesOf(op)
         /\ op \in SimpleOps => timeout_ms = 0
         /\ calls = 0
         /\ BusCall("caller1", op, addr, timeout_ms)
    \/ BusLock("caller1")
    \/ SimpleSend("caller1")
    \/ SimpleRecv("caller1")
    \/ ReadPlateSend("caller1")
    \/ ReadPlateRecv("caller1")
    \/ PollWake("caller1")
    \/ PollTimeout("caller1")
    \/ \E retries \in {-1, 1, MODBUS_MAX_RETRIES, 11} :
         modbus_set_retries(retries)

SpecClient == Init /\ [][NextClient]_vars

\* The statistics: one caller, the operations one after the other with a
\* timeout of two polls, and modbus_reset_stats, modbus_cleanup and
\* modbus_init between or during them.
NextStats ==
    \/ \E op \in BusOps, addr \in Cameras \cup {MODBUS_ADDR_DISPLAY} :
         /\ addr \in AddressesOf(op)
         /\ BusCall("caller1", op, addr, poll_interval + poll_interval)
    \/ BusLock("caller1")
    \/ SimpleSend("caller1")
    \/ SimpleRecv("caller1")
    \/ ReadPlateSend("caller1")
    \/ ReadPlateRecv("caller1")
    \/ PollWake("caller1")
    \/ PollTimeout("caller1")
    \/ modbus_reset_stats
    \/ modbus_cleanup
    \/ modbus_init_again

SpecStats == Init /\ [][NextStats]_vars

\* One modbus_camera_capture_and_read of either camera by one caller.
NextCapture ==
    \/ \E addr \in Cameras :
         /\ bus_local["caller1"].op = "none"
         /\ CaptureTrigger("caller1", addr)
    \/ CaptureRead("caller1")
    \/ CaptureFailed("caller1")
    \/ CaptureDone("caller1")
    \/ BusLock("caller1")
    \/ SimpleSend("caller1")
    \/ SimpleRecv("caller1")
    \/ ReadPlateSend("caller1")
    \/ ReadPlateRecv("caller1")
    \/ PollWake("caller1")
    \/ PollTimeout("caller1")

SpecCapture == Init /\ [][NextCapture]_vars

\* The steps of a caller inside an operation.
CallerRuns(t) ==
    \/ BusLock(t)
    \/ SimpleSend(t)
    \/ SimpleRecv(t)
    \/ ReadPlateSend(t)
    \/ ReadPlateRecv(t)
    \/ PollWake(t)
    \/ PollTimeout(t)

\* SpecClient with the calling thread kept running: it is the only user of
\* modbus_mutex, its I/O returns (response or libmodbus timeout) and its
\* usleep ends.
FairSpecClient == SpecClient /\ WF_vars(CallerRuns("caller1"))

\* One modbus_camera_read_plate call on the entry camera with a timeout of
\* two polls, for every camera contents of Devices.
InitPlate ==
    /\ gate_system_init
    /\ run = NoRun
    /\ modbus_init
    /\ device \in Devices
    /\ passage_init
    /\ exit_passage_init
    /\ message = NoMessage

NextPlate ==
    \/ /\ calls = 0
       /\ BusCall("caller1", "modbus_camera_read_plate",
                  MODBUS_ADDR_CAMERA_ENTRADA, poll_interval + poll_interval)
    \/ BusLock("caller1")
    \/ ReadPlateSend("caller1")
    \/ ReadPlateRecv("caller1")
    \/ PollWake("caller1")
    \/ PollTimeout("caller1")

SpecPlate == InitPlate /\ [][NextPlate]_vars

\* The passage detector under every sequence of samples.
NextPassage ==
    \/ \E s1 \in BOOLEAN, s2 \in BOOLEAN : detect_passage_direction(s1, s2)
    \/ ClockTick

SpecPassage == Init /\ [][NextPassage]_vars

\* The passage thread of the top floor server: samples of its two sensors
\* given to detect_exit_movement, and its clock.
NextExit ==
    \/ \E s1 \in BOOLEAN, s2 \in BOOLEAN : detect_exit_movement(s1, s2)
    \/ ClockTick

SpecExit == Init /\ [][NextExit]_vars

\* modbus_crc16 and the completion of a frame, for every byte string of
\* CrcInputs.
InitCrc ==
    /\ gate_system_init
    /\ run = NoRun
    /\ modbus_init
    /\ device = DefaultDevice
    /\ passage_init
    /\ exit_passage_init
    /\ message \in {[NoMessage EXCEPT !.data = data] : data \in CrcInputs}

NextCrc ==
    \/ modbus_crc16
    \/ BuildFrame

SpecCrc == InitCrc /\ [][NextCrc]_vars

\* ------------------------------------------------------------------ claims

\* C1: in every reachable state the motor output of a gate is asserted only
\* while the gate's state is OPENING or CLOSING; in CLOSED, OPEN and ERROR it
\* is deasserted.
C1_MotorOnlyWhileMoving ==
    \A g \in Gates : motor[g] => state[g] \in Moving

\* C2: a gate does not go from OPENING or CLOSING to ERROR before
\* GATE_TIMEOUT_MS have passed since the movement was commanded.
C2_NoEarlyTimeout ==
    [][\A g \in Gates :
          state[g] \in Moving /\ state'[g] = GATE_STATE_ERROR
          => (now - entered[g]) * POLL_SLEEP_MS >= GATE_TIMEOUT_MS]_vars

\* The timeout tick has just put the entry gate in ERROR.
C2_Witness ==
    /\ state[GATE_ENTRY] = GATE_STATE_ERROR
    /\ motor[GATE_ENTRY]
    /\ operation_count[GATE_ENTRY] = 0

\* C3: a gate that entered OPENING and never saw its open-sensor is in ERROR
\* once a polling tick has run more than GATE_TIMEOUT_MS after the command,
\* that is no later than one tick after the 5000 ms.
C3_TimeoutWithinOneTick ==
    \A g \in Gates :
        state[g] = GATE_STATE_OPENING /\ slept[g]
        => (now - entered[g]) * POLL_SLEEP_MS <= GATE_TIMEOUT_MS

\* C4: gate_open and gate_close on a gate in ERROR return -1 and leave its
\* state, timestamp and operation counter as they are, and the gate leaves
\* ERROR by gate_reset_error only.
C4_ErrorRejectsCommands ==
    [][\A g \in Gates :
          state[g] = GATE_STATE_ERROR
          => /\ gate_open(g) \/ gate_close(g)
                => /\ ret'.val = -1
                   /\ state'[g] = state[g]
                   /\ last_operation'[g] = last_operation[g]
                   /\ operation_count'[g] = operation_count[g]
             /\ state'[g] # GATE_STATE_ERROR => gate_reset_error(g)]_vars

\* A command was rejected on the entry gate in ERROR.
C4_Witness ==
    /\ state[GATE_ENTRY] = GATE_STATE_ERROR
    /\ ret.val = -1

\* C5: gate_open on a gate in CLOSED or CLOSING sets OPENING, records the
\* command time and returns 0; on a gate in OPEN or OPENING it returns 0 and
\* changes neither state nor timestamp.
C5_GateOpen ==
    [][\A g \in Gates :
          gate_open(g)
          => /\ state[g] \in {GATE_STATE_CLOSED, GATE_STATE_CLOSING}
                => /\ state'[g] = GATE_STATE_OPENING
                   /\ last_operation'[g] = time_NULL
                   /\ entered'[g] = now
                   /\ ret'.val = 0
             /\ state[g] \in {GATE_STATE_OPEN, GATE_STATE_OPENING}
                => /\ state'[g] = state[g]
                   /\ last_operation'[g] = last_operation[g]
                   /\ ret'.val = 0]_vars

\* The entry gate was reopened while closing, after a completed opening.
C5_Witness ==
    /\ state[GATE_ENTRY] = GATE_STATE_OPENING
    /\ operation_count[GATE_ENTRY] = 1
    /\ entered[GATE_ENTRY] = now
    /\ now > 0
    /\ ret = Returned("gate_open", 0)

\* C6: gate_close on a gate in OPEN or OPENING sets CLOSING, records the
\* command time and returns 0; on a gate in CLOSED or CLOSING it returns 0
\* and changes neither state nor timestamp.
C6_GateClose ==
    [][\A g \in Gates :
          gate_close(g)
          => /\ state[g] \in {GATE_STATE_OPEN, GATE_STATE_OPENING}
                => /\ state'[g] = GATE_STATE_CLOSING
                   /\ last_operation'[g] = time_NULL
                   /\ entered'[g] = now
                   /\ ret'.val = 0
             /\ state[g] \in {GATE_STATE_CLOSED, GATE_STATE_CLOSING}
                => /\ state'[g] = state[g]
                   /\ last_operation'[g] = last_operation[g]
                   /\ ret'.val = 0]_vars

\* The entry gate was told to close while still opening.
C6_Witness ==
    /\ state[GATE_ENTRY] = GATE_STATE_CLOSING
    /\ operation_count[GATE_ENTRY] = 0
    /\ entered[GATE_ENTRY] = now
    /\ now > 0
    /\ ret = Returned("gate_close", 0)

\* C7: gate_reset_error on a gate in ERROR yields CLOSED when the
\* close-sensor is active (also with the open-sensor active), OPEN when only
\* the open-sensor is active, CLOSED when neither is; never OPENING, CLOSING
\* or ERROR.
C7_ResetError ==
    [][\A g \in Gates :
          state[g] = GATE_STATE_ERROR /\ gate_reset_error(g)
          => /\ reset_read'[2] => state'[g] = GATE_STATE_CLOSED
             /\ reset_read'[1] /\ ~reset_read'[2]
                => state'[g] = GATE_STATE_OPEN
             /\ ~reset_read'[1] /\ ~reset_read'[2]
                => state'[g] = GATE_STATE_CLOSED
             /\ state'[g] \in {GATE_STATE_CLOSED, GATE_STATE_OPEN}]_vars

\* The entry gate was reset from ERROR with both sensors active.
C7_Witness ==
    /\ reset_read = <<TRUE, TRUE>>
    /\ state[GATE_ENTRY] = GATE_STATE_CLOSED
    /\ operation_count[GATE_ENTRY] = 0
    /\ ret = Returned("gate_reset_error", 0)

\* C8: a gate in ERROR stays in ERROR through every polling tick and every
\* gate_open, gate_close and gate_emergency_open_all; only gate_reset_error
\* moves it out of ERROR.
C8_NoAutonomousRecovery ==
    [][\A g \in Gates :
          state[g] = GATE_STATE_ERROR
          => /\ \/ gate_control_thread(g)
                \/ gate_open(g)
                \/ gate_close(g)
                \/ \E c \in Callers : gate_emergency_open_all(c)
                => state'[g] = GATE_STATE_ERROR
             /\ state'[g] # GATE_STATE_ERROR => gate_reset_error(g)]_vars

\* The exit gate is in ERROR, its motor off again, while
\* gate_emergency_open_all has passed the entry gate.
C8_Witness ==
    /\ state[GATE_EXIT] = GATE_STATE_ERROR
    /\ ~motor[GATE_EXIT]
    /\ slept[GATE_EXIT]
    /\ pc["caller1"] = "emergency_exit"

\* C9: each gate_open of gate_emergency_open_all turns a gate in CLOSED or
\* CLOSING to OPENING, leaves a gate in OPEN or OPENING as it is, and leaves
\* a gate in ERROR in ERROR with its motor off.
C9_EmergencyOpenAll ==
    [][\A c \in Callers :
          gate_emergency_open_all(c)
          => LET g == EmergencyGate(pc[c])
             IN /\ state[g] \in {GATE_STATE_CLOSED, GATE_STATE_CLOSING}
                   => state'[g] = GATE_STATE_OPENING
                /\ state[g] \in {GATE_STATE_OPEN, GATE_STATE_OPENING}
                   => state'[g] = state[g]
                /\ state[g] = GATE_STATE_ERROR
                   => state'[g] = GATE_STATE_ERROR /\ ~motor'[g]]_vars

\* A thread inside a locked section holds the gate's mutex, and the state
\* it read is still the gate's state.
InLockedSection ==
    \A t \in Threads :
        pc[t] \in {"locked", "read"}
        => /\ mutex[local[t].gate] = t
           /\ pc[t] = "read" => local[t].seen = state[local[t].gate]

\* The step is a whole tick or a whole command on gate g, taken on the
\* gate's current state.
AtomicStep(g) ==
    \/ \E rd \in BOOLEAN \X BOOLEAN :
          TickApply(g, state[g], rd) \/ ResetApply(g, state[g], rd)
    \/ OpenApply(g, state[g])
    \/ CloseApply(g, state[g])

\* C10: every read and write of a gate's state by gate_open, gate_close,
\* gate_get_state, gate_reset_error and the polling loop happens under the
\* gate's mutex, and every step that changes a gate is one whole command or
\* tick applied to the gate's current state (and gate_get_state returns the
\* state the gate has when it returns): the reachable gate states are those
\* of a sequential order of the commands and ticks.
C10_Linearizable ==
    /\ []InLockedSection
    /\ [][/\ fields' # fields => \E g \in Gates : AtomicStep(g)
          /\ ret' # ret /\ ret'.op = "gate_get_state"
             => ret'.val = state[GATE_ENTRY]]_vars

\* A caller is about to reopen the closing entry gate while the gate's
\* polling thread and the other caller wait for the mutex.
C10_Witness ==
    /\ pc["caller1"] = "read"
    /\ local["caller1"].op = "gate_open"
    /\ local["caller1"].seen = GATE_STATE_CLOSING
    /\ pc["caller2"] = "idle"
    /\ pc[GATE_ENTRY] = "idle"
    /\ ~slept[GATE_ENTRY]

\* ------------------------------------------------------- bus client claims

\* Callers whose request frame was sent and whose response has neither
\* arrived nor failed yet.
InFlight == {t \in Callers : bus_pc[t] = "recv"}

\* C11: under every interleaving of camera, display and diagnostic
\* operations of two callers, at most one request is in flight on the bus:
\* no caller has sent a request while the request of another caller is
\* still awaiting its response.
C11_OneRequestInFlight == Cardinality(InFlight) <= 1

\* A request is in flight while the other caller is inside an operation
\* too, waiting for modbus_mutex.
C11_Witness ==
    \E t \in Callers, u \in Callers :
        /\ t # u
        /\ bus_pc[t] = "recv"
        /\ bus_pc[u] = "lock"

\* Caller t is inside an operation: it has taken modbus_mutex for it and
\* has not returned yet.
InOperation(t) == bus_pc[t] \in {"send", "recv", "sleep", "timeout"}

\* Caller u puts a request frame on the bus in this step.
SendsFrame(u) == bus_pc[u] = "send" /\ bus_pc'[u] = "recv"

\* C12: every public operation runs entirely inside the client's one
\* exclusive section: from the moment a caller has entered an operation
\* (modbus_camera_read_plate included) until that operation returns, no
\* other caller sends a frame on the bus.
C12_OperationExclusive ==
    [][\A t \in Callers, u \in Callers :
          (t # u /\ InOperation(t)) => ~SendsFrame(u)]_vars

\* Caller t returns from operation op with value val in this step.
Returns(t, op, val) ==
    /\ bus_pc[t] # "idle"
    /\ bus_pc'[t] = "idle"
    /\ bus_ret'[t].op = op
    /\ bus_ret'[t].val = val

\* C13: a failed bus attempt is retried: modbus_camera_trigger returns
\* failure only after max_retries attempts (current_retries: 3 by default,
\* changed by modbus_set_retries) have failed, each of them counted once in
\* stats.errors.
C13_RetriedUntilMaxRetries ==
    [][\A t \in Callers :
          Returns(t, "modbus_camera_trigger", -1)
          => /\ bus_local'[t].attempts >= current_retries
             /\ stats'.errors - bus_local'[t].before.errors
                    = bus_local'[t].attempts]_vars

\* The failure counters of DeviceStats, added up.
Failures(s) == s.errors + s.timeouts + s.crc_errors

\* C14: a bus failure is never dropped silently: every public operation
\* that returns failure because a send or a receive on the bus failed (for
\* modbus_camera_read_plate: every failure other than the camera reporting
\* STATUS = ERROR) has incremented errors, timeouts or crc_errors at least
\* once since it was called.
C14_FailureCounted ==
    [][\A t \in Callers, op \in BusOps :
          (/\ Returns(t, op, -1)
           /\ ~(op = "modbus_camera_read_plate"
                /\ bus_local'[t].status = LPR_STATUS_ERROR))
          => Failures(stats') > Failures(bus_local'[t].before)]_vars

\* ceil(a / b) for a >= 0, b > 0.
CeilDiv(a, b) == (a + b - 1) \div b

\* The timeout modbus_camera_read_plate works with for argument timeout_ms.
EffectiveTimeout(timeout_ms) ==
    IF timeout_ms <= 0 THEN 2000 ELSE timeout_ms

InReadPlate(t) ==
    bus_pc[t] # "idle" /\ bus_local[t].op = "modbus_camera_read_plate"

\* C15: modbus_camera_read_plate issues at most ceil(timeout_ms / 100)
\* STATUS reads (20 when timeout_ms <= 0, which stands for 2000 ms); once a
\* STATUS read returned OK or ERROR it issues no further STATUS read, and
\* until then it goes on polling; and every call returns.
C15_PollBoundedAndTerminates ==
    /\ [](\A t \in Callers :
            bus_local[t].op = "modbus_camera_read_plate"
            => bus_local[t].polls
                 <= CeilDiv(EffectiveTimeout(bus_local[t].timeout_arg), 100))
    /\ [][\A t \in Callers :
            /\ (InReadPlate(t)
                /\ bus_local[t].status \in {LPR_STATUS_OK, LPR_STATUS_ERROR})
               => bus_local'[t].polls = bus_local[t].polls
            /\ (InReadPlate(t) /\ bus_pc[t] = "recv" /\ bus_pc'[t] # "recv"
                /\ bus_local[t].reg = "STATUS"
                /\ bus_local'[t].status \notin {LPR_STATUS_OK, LPR_STATUS_ERROR})
               => bus_pc'[t] = "sleep"]_vars
    /\ \A t \in Callers : InReadPlate(t) ~> (bus_pc[t] = "idle")

\* A call with timeout_ms <= 0 has returned after 20 STATUS reads, none of
\* which read OK or ERROR.
C15_Witness ==
    \E t \in Callers :
        /\ bus_pc[t] = "idle"
        /\ bus_ret[t].op = "modbus_camera_read_plate"
        /\ bus_local[t].timeout_arg <= 0
        /\ bus_local[t].polls = 20

\* C16: a modbus_camera_read_plate that reads STATUS = ERROR returns
\* failure without having asked for the plate or the confidence registers
\* and without counting a timeout; one whose timeout elapses with no OK
\* read returns failure and increments stats.timeouts by exactly one; and
\* stats.timeouts changes in no other step of any operation.
C16_ErrorAndTimeout ==
    [][/\ \A t \in Callers :
            /\ (InReadPlate(t) /\ bus_pc'[t] # bus_pc[t]
                /\ bus_local'[t].status = LPR_STATUS_ERROR)
               => /\ Returns(t, "modbus_camera_read_plate", -1)
                  /\ bus_local'[t].read = {"STATUS"}
                  /\ stats'.timeouts = stats.timeouts
            /\ (InReadPlate(t) /\ bus_pc'[t] # bus_pc[t]
                /\ bus_local[t].elapsed >= bus_local[t].timeout_ms
                /\ bus_local[t].status # LPR_STATUS_OK)
               => /\ Returns(t, "modbus_camera_read_plate", -1)
                  /\ stats'.timeouts = stats.timeouts + 1
       /\ stats'.timeouts # stats.timeouts
          => \E t \in Callers :
                /\ Returns(t, "modbus_camera_read_plate", -1)
                /\ bus_local[t].elapsed >= bus_local[t].timeout_ms
                /\ bus_local[t].status # LPR_STATUS_OK
                /\ stats'.timeouts = stats.timeouts + 1]_vars

\* The timeout of a call elapsed after polls that read PROCESSING, and it
\* was counted.
C16_Witness ==
    \E t \in Callers :
        /\ bus_pc[t] = "idle"
        /\ bus_ret[t] = BusReturned("modbus_camera_read_plate", -1, NoReading)
        /\ bus_local[t].status = LPR_STATUS_PROCESSING
        /\ bus_local[t].elapsed >= bus_local[t].timeout_ms
        /\ stats.timeouts = 1

\* Caller t is back from a modbus_camera_read_plate that returned 0.
ReadingReturned(t) ==
    /\ bus_pc[t] = "idle"
    /\ bus_ret[t].op = "modbus_camera_read_plate"
    /\ bus_ret[t].val = 0

\* "ABC1234" as bytes.
ABC1234 == <<65, 66, 67, 49, 50, 51, 52>>

\* C17: in every reading returned by a successful modbus_camera_read_plate
\* call, success is true exactly when confidence >= 70 and the sanitized
\* plate has at least 7 characters; a camera holding "ABC1234" with
\* confidence 85 gives success = true, plate = "ABC1234", confidence = 85,
\* and a 7-character plate with confidence 50 gives success = false.
C17_SuccessFlag ==
    \A t \in Callers :
        ReadingReturned(t) =>
            LET r == bus_ret[t].reading IN
            /\ r.success <=> (r.confidence >= 70 /\ Len(r.plate) >= 7)
            /\ (device = DefaultDevice /\ r.confidence # 0)
               => r = [plate |-> ABC1234, confidence |-> 85, success |-> TRUE]
            /\ (r.confidence = 50 /\ Len(r.plate) = 7) => ~r.success

\* The camera reported something other than OK at the first poll and OK at
\* the second, and the reading is "ABC1234" with confidence 85, successful.
C17_Witness ==
    \E t \in Callers :
        /\ ReadingReturned(t)
        /\ bus_local[t].polls = 2
        /\ bus_ret[t].reading
             = [plate |-> ABC1234, confidence |-> 85, success |-> TRUE]

\* Caller t's read of the CONFIDENCE register fails in this step: the
\* request was made, the call ends and no response is counted.
ConfidenceReadFails(t) ==
    /\ InReadPlate(t)
    /\ bus_local[t].reg = "CONFIDENCE"
    /\ bus_pc'[t] = "idle"
    /\ stats'.responses_received = stats.responses_received

\* C18: when the CONFIDENCE read fails after the plate registers were
\* read, modbus_camera_read_plate counts one error and still returns 0,
\* with a reading whose confidence is 0, whose success flag is false and
\* whose plate is the plate decoded from the plate registers.
C18_ConfidenceReadFailure ==
    [][\A t \in Callers :
          ConfidenceReadFails(t)
          => /\ stats'.errors = stats.errors + 1
             /\ bus_ret'[t] =
                  BusReturned("modbus_camera_read_plate", 0,
                      [plate |-> bus_local[t].reading.plate,
                       confidence |-> 0, success |-> FALSE])
             /\ bus_ret'[t].reading.plate = DecodePlate(device.plate_regs)]_vars

\* A reading of "ABC1234" came back with confidence 0 and success false
\* from a call that returned 0 and counted an error.
C18_Witness ==
    \E t \in Callers :
        /\ ReadingReturned(t)
        /\ "CONFIDENCE" \in bus_local[t].read
        /\ bus_ret[t].reading
             = [plate |-> ABC1234, confidence |-> 0, success |-> FALSE]
        /\ stats.errors = bus_local[t].before.errors + 1

\* The i-th of the 8 bytes held by the camera's 4 plate registers, the high
\* byte of a register before its low byte.
RegisterByte(i) ==
    IF i % 2 = 1 THEN device.plate_regs[(i + 1) \div 2] \div 256
    ELSE device.plate_regs[i \div 2] % 256

\* Number of leading bytes that are all within 32..126.
PrintablePrefix ==
    CHOOSE n \in 0..8 :
        /\ \A i \in 1..n : RegisterByte(i) >= 32 /\ RegisterByte(i) <= 126
        /\ n < 8 => (RegisterByte(n + 1) < 32 \/ RegisterByte(n + 1) > 126)

\* C19: the plate text returned by modbus_camera_read_plate is the 8 bytes
\* of the 4 plate registers (high byte, then low byte, register by
\* register), cut before the first byte outside 32..126, with the trailing
\* spaces removed; so it has at most 8 characters, all printable, and does
\* not end in a space.
C19_PlateText ==
    \A t \in Callers :
        ReadingReturned(t) =>
            LET p == bus_ret[t].reading.plate IN
            /\ Len(p) <= PrintablePrefix
            /\ \A i \in 1..Len(p) : p[i] = RegisterByte(i)
            /\ \A i \in (Len(p) + 1)..PrintablePrefix : RegisterByte(i) = 32
            /\ Len(p) > 0 => p[Len(p)] # 32
            /\ Len(p) <= 8
            /\ \A i \in 1..Len(p) : p[i] >= 32 /\ p[i] <= 126

\* The registers hold "AB", two spaces, DEL: the text returned is "AB", cut
\* at DEL and with the two spaces removed.
C19_Witness ==
    \E t \in Callers :
        /\ ReadingReturned(t)
        /\ device.plate_regs[1] = 16706
        /\ device.plate_regs[2] = 8224
        /\ device.plate_regs[3] = 32577
        /\ bus_ret[t].reading.plate = <<65, 66>>

\* ------------------------------------------------ passage detector claims

\* The crossing in progress began no more than the stale window ago.
WithinWindow == clock - sampled.t0 <= 5 * ClockPerSecond

\* C20: starting from IDLE, the samples S1 alone, then both sensors, then
\* S2 alone make detect_passage_direction emit exactly one event, +1
\* (upward), and the mirror sequence exactly one event, -1 (downward),
\* however many samples each phase lasts, provided the sequence completes
\* within the stale window of 5 s; no event is emitted before the third
\* phase.
C20_OneEventPerCrossing ==
    WithinWindow =>
        /\ sampled.phase = "up3" => sampled.events = <<1>>
        /\ sampled.phase = "down3" => sampled.events = <<-1>>
        /\ sampled.phase \in {"up1", "up2", "down1", "down2"}
           => sampled.events = <<>>

\* An upward crossing that took the whole window has been counted once, and
\* the detector has moved on to STATE_S2_ACTIVE.
C20_Witness ==
    /\ sampled.phase = "up3"
    /\ clock - sampled.t0 = 5 * ClockPerSecond
    /\ sampled.events = <<1>>
    /\ direction = 0
    /\ passage.state = STATE_S2_ACTIVE

\* C21: a run of samples that starts with the detector idle, has exactly
\* one sensor active in every sample (never both) and ends with a sample
\* of both sensors inactive emits no event, neither during the run nor at
\* its end, and leaves the detector in STATE_IDLE.
C21_NoCrossingNoEvent ==
    /\ sampled.single_only => direction = 0
    /\ sampled.released => direction = 0 /\ passage.state = STATE_IDLE

\* A sensor was covered and released again: the sample of both sensors
\* inactive took the detector from a single-active state back to
\* STATE_IDLE.
C21_Witness ==
    /\ sampled.released
    /\ sampled.changed = clock
    /\ passage.state = STATE_IDLE
    /\ ~Stale(Seconds(clock), passage.last_trigger)
    /\ direction = 0

\* More than the stale window has passed since passage.state last changed.
NoTransitionForWindow == clock - sampled.changed > STALE_AFTER_S * ClockPerSecond

\* C22: from any state other than STATE_IDLE, once more than 5 s have
\* passed without a state transition, the next sample is handled as if the
\* detector were in STATE_IDLE with entered_from_s1 cleared, whatever the
\* samples in between were: it leads to the state and returns the event
\* that the switch gives from STATE_IDLE.
C22_StaleSequenceReset ==
    [][\A s1 \in BOOLEAN, s2 \in BOOLEAN :
         (/\ passage.state # STATE_IDLE
          /\ NoTransitionForWindow
          /\ detect_passage_direction(s1, s2))
         => LET idle == PassageSwitch(STATE_IDLE, FALSE, s1, s2) IN
            /\ passage'.state = idle.state
            /\ direction' = idle.direction]_vars

\* ------------------------------------------------------ frame claims

\* The numeric ID 1234 as the four bytes of the suffix.
NumericId == <<1, 2, 3, 4>>

\* C23: every request the client has built for the bus (the trigger, the
\* STATUS, PLATE and CONFIDENCE reads, the reset, the display updates, the
\* display read and the device test) ends, right before its CRC, with the
\* four bytes of the numeric ID.
C23_FramesCarryNumericId ==
    \A t \in Callers :
        LET frame == bus_local[t].frame IN
        frame # <<>> =>
            /\ Len(frame) >= 4
            /\ SubSeq(frame, Len(frame) - 3, Len(frame)) = NumericId

\* The table of the table-driven MODBUS CRC16 (polynomial 0xA001,
\* reflected): entry b is the CRC register after byte b from register 0.
CrcTable ==
    <<0, 49345, 49537, 320, 49921, 960, 640, 49729,
      50689, 1728, 1920, 51009, 1280, 50625, 50305, 1088,
      52225, 3264, 3456, 52545, 3840, 53185, 52865, 3648,
      2560, 51905, 52097, 2880, 51457, 2496, 2176, 51265,
      55297, 6336, 6528, 55617, 6912, 56257, 55937, 6720,
      7680, 57025, 57217, 8000, 56577, 7616, 7296, 56385,
      5120, 54465, 54657, 5440, 55041, 6080, 5760, 54849,
      53761, 4800, 4992, 54081, 4352, 53697, 53377, 4160,
      61441, 12480, 12672, 61761, 13056, 62401, 62081, 12864,
      13824, 63169, 63361, 14144, 62721, 13760, 13440, 62529,
      15360, 64705, 64897, 15680, 65281, 16320, 16000, 65089,
      64001, 15040, 15232, 64321, 14592, 63937, 63617, 14400,
      10240, 59585, 59777, 10560, 60161, 11200, 10880, 59969,
      60929, 11968, 12160, 61249, 11520, 60865, 60545, 11328,
      58369, 9408, 9600, 58689, 9984, 59329, 59009, 9792,
      8704, 58049, 58241, 9024, 57601, 8640, 8320, 57409,
      40961, 24768, 24960, 41281, 25344, 41921, 41601, 25152,
      26112, 42689, 42881, 26432, 42241, 26048, 25728, 42049,
      27648, 44225, 44417, 27968, 44801, 28608, 28288, 44609,
      43521, 27328, 27520, 43841, 26880, 43457, 43137, 26688,
      30720, 47297, 47489, 31040, 47873, 31680, 31360, 47681,
      48641, 32448, 32640, 48961, 32000, 48577, 48257, 31808,
      46081, 29888, 30080, 46401, 30464, 47041, 46721, 30272,
      29184, 45761, 45953, 29504, 45313, 29120, 28800, 45121,
      20480, 37057, 37249, 20800, 37633, 21440, 21120, 37441,
      38401, 22208, 22400, 38721, 21760, 38337, 38017, 21568,
      39937, 23744, 23936, 40257, 24320, 40897, 40577, 24128,
      23040, 39617, 39809, 23360, 39169, 22976, 22656, 38977,
      34817, 18624, 18816, 35137, 19200, 35777, 35457, 19008,
      19968, 36545, 36737, 20288, 36097, 19904, 19584, 35905,
      17408, 33985, 34177, 17728, 34561, 18368, 18048, 34369,
      33281, 17088, 17280, 33601, 16640, 33217, 32897, 16448>>

\* One byte of the table-driven MODBUS CRC16:
\* crc = (crc >> 8) ^ table[(crc ^ byte) & 0xFF].
TableStep(crc, byte) ==
    BitXor(crc \div 256, CrcTable[BitXor(crc % 256, byte) + 1])

\* C24: for every byte string of CrcInputs, modbus_crc16 equals the
\* table-driven reference MODBUS CRC16: both start from 0xFFFF and, byte
\* after byte, the 8 shifts of modbus_crc16 leave the value that the table
\* lookup gives; the frame built from the string is the string followed by
\* the low byte and then the high byte of the CRC of the whole string.
C24_CrcMatchesReference ==
    /\ [](message.i = 0 => message.crc = 65535)
    /\ [][message'.i = message.i + 1 =>
             message'.crc = TableStep(message.crc, message.data[message'.i])]_vars
    /\ [](message.frame # <<>> =>
             /\ message.i = Len(message.data)
             /\ message.frame = message.data
                    \o <<message.crc % 256, message.crc \div 256>>)

\* The trigger request to the entry camera, 11 06 00 01 00 01 01 02 03 04,
\* has been completed with its CRC 0xF887, low byte first.
C24_Witness ==
    /\ message.data = <<17, 6, 0, 1, 0, 1, 1, 2, 3, 4>>
    /\ message.crc = 63623
    /\ message.i = 10
    /\ message.frame = <<17, 6, 0, 1, 0, 1, 1, 2, 3, 4, 135, 248>>

\* ----------------------------------------------------------- cleanup claim

\* gate_system_cleanup is past its two pthread_join calls.
PastJoins == cleanup_pc \in {"motor_entry", "motor_exit", "destroy", "done"}

\* C25: gate_system_cleanup clears thread_running of both gates before it
\* waits; it forces the motors off and destroys the mutexes only after both
\* polling threads have returned; once it has returned both motors are off
\* and stay off, and no polling tick runs any more.
C25_CleanupStopsPolling ==
    /\ [](cleanup_pc \notin {"idle", "stop_exit"} =>
             \A g \in Gates : ~thread_running[g])
    /\ [](PastJoins => \A g \in Gates : exited[g])
    /\ [](\E g \in Gates : mutex[g] = Destroyed =>
             \A h \in Gates : exited[h])
    /\ [](cleanup_pc = "done" => \A g \in Gates : ~motor[g])
    /\ [][cleanup_pc = "done" =>
             /\ motor' = motor
             /\ slept' = slept
             /\ state' = state]_vars

\* gate_system_cleanup has returned while the entry gate was opening: its
\* thread is gone, its motor is off, and the state stays OPENING.
C25_Witness ==
    /\ cleanup_pc = "done"
    /\ ~gates_initialized
    /\ \A g \in Gates : exited[g] /\ ~motor[g]
    /\ state[GATE_ENTRY] = GATE_STATE_OPENING
    /\ now > entered[GATE_ENTRY]

\* ------------------------------------------------------- statistics claim

Counters == {"requests_sent", "responses_received", "errors", "timeouts",
             "crc_errors"}

\* C26: no counter of stats ever decreases, whatever the client does,
\* except in a step of modbus_reset_stats, the only operation that takes
\* the counters back to zero.
C26_CountersMonotonic ==
    [][(\E c \in Counters : stats'[c] < stats[c]) => modbus_reset_stats]_vars

\* ------------------------------------------------- operation counter claim

\* The step takes gate g from OPENING to OPEN or from CLOSING to CLOSED.
CompletesMovement(g) ==
    \/ state[g] = GATE_STATE_OPENING /\ state'[g] = GATE_STATE_OPEN
    \/ state[g] = GATE_STATE_CLOSING /\ state'[g] = GATE_STATE_CLOSED

\* C27: a gate's operation counter never decreases; it grows by exactly 1
\* in the tick that completes a movement (OPENING to OPEN, CLOSING to
\* CLOSED), which also records the time as the last transition, and it is
\* left alone by every other step: gate_open, gate_close, gate_reset_error
\* and the ticks that time out or change nothing.
C27_OperationCounter ==
    [][\A g \in Gates :
         /\ operation_count'[g] >= operation_count[g]
         /\ IF CompletesMovement(g)
            THEN /\ operation_count'[g] = operation_count[g] + 1
                 /\ last_operation'[g] = time_NULL
                 /\ ret' = ret
            ELSE operation_count'[g] = operation_count[g]]_vars

\* The entry gate has been opened and closed again: two movements counted,
\* the second just now.
C27_Witness ==
    /\ operation_count[GATE_ENTRY] = 2
    /\ state[GATE_ENTRY] = GATE_STATE_CLOSED
    /\ last_operation[GATE_ENTRY] = time_NULL
    /\ time_NULL > 0

\* ------------------------------------------------ direction event claims

\* C28 as stated: whenever the detector is in STATE_BOTH_ACTIVE and the
\* next sample has exactly one sensor active, it emits a direction event,
\* the one of the sensor activated first, and moves to the single-active
\* state of the sensor still active.
C28_EventOnAnySingle ==
    [][\A s1 \in BOOLEAN, s2 \in BOOLEAN :
         (/\ passage.state = STATE_BOTH_ACTIVE
          /\ s1 # s2
          /\ detect_passage_direction(s1, s2))
         => /\ direction' = (IF passage.entered_from_s1 THEN 1 ELSE -1)
            /\ passage'.state = (IF s1 THEN STATE_S1_ACTIVE
                                   ELSE STATE_S2_ACTIVE)]_vars

\* C28 as amended: in STATE_BOTH_ACTIVE with a sequence that is not stale,
\* a sample with only the sensor active that was not the first one emits
\* the event of the sensor activated first and moves to the state of the
\* sensor still active; a sample with only the first sensor active emits
\* nothing and leaves the detector in STATE_BOTH_ACTIVE.
C28_EventOnOtherSingle ==
    [][\A s1 \in BOOLEAN, s2 \in BOOLEAN :
         (/\ passage.state = STATE_BOTH_ACTIVE
          /\ ~Stale(Seconds(clock), passage.last_trigger)
          /\ s1 # s2
          /\ detect_passage_direction(s1, s2))
         => IF s2 = passage.entered_from_s1
            THEN /\ direction' = (IF passage.entered_from_s1 THEN 1 ELSE -1)
                 /\ passage'.state = (IF s1 THEN STATE_S1_ACTIVE
                                   ELSE STATE_S2_ACTIVE)
            ELSE /\ direction' = 0
                 /\ passage'.state = STATE_BOTH_ACTIVE]_vars

\* A downward crossing has just been reported: S2 was first, both sensors
\* were covered, and S1 alone remains.
C28_Witness ==
    /\ direction = -1
    /\ passage.state = STATE_S1_ACTIVE
    /\ ~passage.entered_from_s1
    /\ sampled.phase = "down3"

\* -------------------------------------------------- exit detector claims

\* C29 as stated: detect_exit_movement reports a movement only on the step
\* from STATE_BOTH_ACTIVE to S2 alone, reached through STATE_S1_ACTIVE and
\* STATE_BOTH_ACTIVE since STATE_IDLE; it reports nothing while the samples
\* since the last one with no sensor active began with S2 alone; and it
\* reports nothing after a report before it was in STATE_IDLE again.
C29_NoReportAfterS2First ==
    [][\A s1 \in BOOLEAN, s2 \in BOOLEAN :
         (detect_exit_movement(s1, s2) /\ exit_passage'.movement_detected)
         => /\ exit_passage.state = STATE_BOTH_ACTIVE
            /\ ~s1 /\ s2
            /\ exit_passage'.state = STATE_S2_ACTIVE
            /\ exit_passage.path = <<STATE_S1_ACTIVE, STATE_BOTH_ACTIVE>>
            /\ ~exit_passage.reported
            /\ exit_passage.first # "s2"]_vars

\* C29 as amended: a movement is reported only on the step from
\* STATE_BOTH_ACTIVE, not stale, to S2 alone, reached through
\* STATE_S1_ACTIVE and STATE_BOTH_ACTIVE since STATE_IDLE and with no
\* report since then; and a sample with S2 active taken in STATE_IDLE
\* reports nothing and leaves the detector in STATE_IDLE.
C29_ReportOnlyThroughS1 ==
    [][\A s1 \in BOOLEAN, s2 \in BOOLEAN :
         detect_exit_movement(s1, s2)
         => /\ exit_passage'.movement_detected
               => /\ exit_passage.state = STATE_BOTH_ACTIVE
                  /\ ~Stale(Seconds(clock), exit_passage.last_trigger)
                  /\ ~s1 /\ s2
                  /\ exit_passage'.state = STATE_S2_ACTIVE
                  /\ exit_passage.path
                       = <<STATE_S1_ACTIVE, STATE_BOTH_ACTIVE>>
                  /\ ~exit_passage.reported
            /\ (exit_passage.state = STATE_IDLE /\ s2)
               => /\ ~exit_passage'.movement_detected
                  /\ exit_passage'.state = STATE_IDLE]_vars

\* A movement has just been reported: S1 alone, both sensors, S2 alone.
C29_Witness ==
    /\ exit_passage.movement_detected
    /\ exit_passage.state = STATE_S2_ACTIVE
    /\ exit_passage.first = "s1"
    /\ exit_passage.path
         = <<STATE_S1_ACTIVE, STATE_BOTH_ACTIVE, STATE_S2_ACTIVE>>

\* ------------------------------------------------ capture protocol claims

\* In the log of the caller inside modbus_camera_capture_and_read the
\* first event is the TRIGGER request, and every later event comes right
\* after the one it depends on.
CaptureOrdered ==
    LET log == bus_local["caller1"].log
        After(i, event) == i > 1 /\ log[i - 1] = event
    IN
    /\ Len(log) > 0 => log[1] = "TRIGGER"
    /\ \A i \in 1..Len(log) :
         /\ log[i] = "confirmed" => After(i, "TRIGGER")
         /\ log[i] = "STATUS" => After(i, "confirmed")
         /\ log[i] = "OK" => After(i, "STATUS")
         /\ log[i] = "PLATE" => After(i, "OK")
         /\ log[i] = "plate" => After(i, "PLATE")
         /\ log[i] = "CONFIDENCE" => After(i, "plate")

\* C30: inside modbus_camera_capture_and_read the first request sent is
\* the write of 1 to the TRIGGER register; STATUS is polled only after the
\* trigger was sent and confirmed; PLATE is read only after a STATUS poll
\* returned OK; CONFIDENCE is read only after the PLATE read succeeded.
C30_ProtocolOrder ==
    /\ []CaptureOrdered
    /\ [][\A addr \in Cameras :
            (/\ bus_local["caller1"].log = <<>>
             /\ SimpleSend("caller1")
             /\ bus_local["caller1"].addr = addr
             /\ bus_local["caller1"].within # "none")
            => bus_local'["caller1"].frame
                 = add_matricula_to_message(<<addr, 6, 0, 1, 0, 1>>)]_vars

\* A capture has gone through all four requests: trigger confirmed, status
\* OK after at least two polls, plate read, confidence requested.
C30_Witness ==
    /\ bus_local["caller1"].log
         = <<"TRIGGER", "confirmed", "STATUS", "OK", "PLATE", "plate",
             "CONFIDENCE">>
    /\ bus_local["caller1"].polls >= 2
    /\ bus_ret["caller1"].op = "modbus_camera_capture_and_read"
    /\ bus_ret["caller1"].val = 0

\* ------------------------------------------------------ reset claims

\* C31: gate_reset_error called on a gate that is not in ERROR returns 0
\* and leaves the gate's state, last_operation, operation_count and motor
\* output as they were.
C31_ResetOnlyInError ==
    [][(gate_reset_error(GATE_ENTRY) /\ state[GATE_ENTRY] # GATE_STATE_ERROR)
       => /\ ret' = Returned("gate_reset_error", 0)
          /\ state' = state
          /\ last_operation' = last_operation
          /\ operation_count' = operation_count
          /\ motor' = motor]_vars

\* gate_reset_error has just returned on a gate that is OPENING with its
\* motor running, a second or more after the movement was commanded.
C31_Witness ==
    /\ ret = Returned("gate_reset_error", 0)
    /\ state[GATE_ENTRY] = GATE_STATE_OPENING
    /\ motor[GATE_ENTRY]
    /\ time_NULL > last_operation[GATE_ENTRY]

\* ------------------------------------------------- slave address claims

\* C32: whenever modbus_camera_read_plate(camera) is about to send a
\* STATUS, PLATE or CONFIDENCE request, the slave address set on the
\* context is the address of that camera.
C32_ReadPlateAddressesCamera ==
    \A t \in Callers :
        (/\ bus_local[t].op = "modbus_camera_read_plate"
         /\ bus_pc[t] = "send")
        => slave = bus_local[t].addr

\* ------------------------------------------------------ context claims

\* C33: a caller that is sending a request or waiting for its response
\* does so on a context that modbus_cleanup has not closed and freed.
C33_NoUseAfterCleanup ==
    \A t \in Callers : bus_pc[t] \in {"send", "recv"} => initialized

\* ------------------------------------------------- vehicle count claims

\* C34: between two consecutive visits of the detector to STATE_IDLE at
\* most one direction event is emitted.
C34_OneEventPerSequence == sampled.emitted <= 1

\* ------------------------------------------------ stale reset claims

\* C35: the stale-sequence reset is applied to a sequence in progress only
\* when more than 5 s have passed since the detector last changed state.
C35_ResetOnlyAfterQuietWindow ==
    [][\A s1 \in BOOLEAN, s2 \in BOOLEAN :
         (/\ detect_passage_direction(s1, s2)
          /\ passage.state # STATE_IDLE
          /\ Stale(Seconds(clock), passage.last_trigger))
         => NoTransitionForWindow]_vars

\* ------------------------------------------------------ motor claims

\* C36: a polling tick that finds its gate in CLOSED, OPEN or ERROR ends
\* with the motor output deasserted, and the output stays deasserted as
\* long as the gate stays in one of these states; so the motor is off at
\* the latest at the end of the first tick after the state became CLOSED,
\* OPEN or ERROR, unless a movement was commanded in between.
C36_MotorOffByNextTick ==
    [][\A g \in Gates :
         /\ (gate_control_thread(g) /\ state[g] \notin Moving)
            => ~motor'[g]
         /\ (/\ state[g] \notin Moving
             /\ state'[g] \notin Moving
             /\ ~motor[g])
            => ~motor'[g]]_vars

\* The entry gate timed out with its motor running, and the tick of the
\* next period has run and switched the motor off.
C36_Witness ==
    /\ state[GATE_ENTRY] = GATE_STATE_ERROR
    /\ ~motor[GATE_ENTRY]
    /\ slept[GATE_ENTRY]
    /\ time_NULL - last_operation[GATE_ENTRY] > GATE_TIMEOUT_MS \div MS_PER_SEC

\* ---------------------------------------------------- motor run claims

\* C37: with the end-position sensors never active, no motor output stays
\* asserted for longer than GATE_TIMEOUT_MS plus one polling period,
\* whatever gate_open and gate_close commands are given.
C37_MotorRunBounded ==
    \A g \in Gates :
        run.since[g] >= 0
        => now - run.since[g] <= (GATE_TIMEOUT_MS \div POLL_SLEEP_MS) + 1

\* ----------------------------------------------- repeated command claims

\* C38: gate_open on a gate that is OPENING and gate_close on a gate that
\* is CLOSING return 0 and leave last_operation, and with it the tick at
\* which the movement times out, as it was, along with the state, the
\* operation counter and the motor output.
C38_RepeatKeepsTimeout ==
    [][/\ (gate_open(GATE_ENTRY) /\ state[GATE_ENTRY] = GATE_STATE_OPENING)
          => /\ ret' = Returned("gate_open", 0)
             /\ last_operation' = last_operation
             /\ state' = state
             /\ operation_count' = operation_count
             /\ motor' = motor
       /\ (gate_close(GATE_ENTRY) /\ state[GATE_ENTRY] = GATE_STATE_CLOSING)
          => /\ ret' = Returned("gate_close", 0)
             /\ last_operation' = last_operation
             /\ state' = state
             /\ operation_count' = operation_count
             /\ motor' = motor]_vars

\* gate_open has just returned on a gate that has been OPENING for three
\* seconds or more: its last_operation is still that of the first command.
C38_Witness ==
    /\ ret = Returned("gate_open", 0)
    /\ state[GATE_ENTRY] = GATE_STATE_OPENING
    /\ motor[GATE_ENTRY]
    /\ time_NULL - last_operation[GATE_ENTRY] >= 3

\* ------------------------------------------------------ progress claims

\* C39: a gate that is OPENING eventually is OPEN or in ERROR, a gate that
\* is CLOSING eventually is CLOSED or in ERROR, and a gate that is moving
\* eventually rests with its motor output deasserted, when no command is
\* given during the movement and the polling loop keeps running.
C39_GateProgress ==
    /\ (state[GATE_ENTRY] = GATE_STATE_OPENING)
         ~> (state[GATE_ENTRY] \in {GATE_STATE_OPEN, GATE_STATE_ERROR})
    /\ (state[GATE_ENTRY] = GATE_STATE_CLOSING)
         ~> (state[GATE_ENTRY] \in {GATE_STATE_CLOSED, GATE_STATE_ERROR})
    /\ (state[GATE_ENTRY] \in Moving)
         ~> (state[GATE_ENTRY] \notin Moving /\ ~motor[GATE_ENTRY])

\* The last command was an accepted gate_close, the gate never saw its
\* close sensor, timed out, and its motor has been switched off.
C39_Witness ==
    /\ ret = Returned("gate_close", 0)
    /\ state[GATE_ENTRY] = GATE_STATE_ERROR
    /\ operation_count[GATE_ENTRY] = 1
    /\ ~motor[GATE_ENTRY]

\* -------------------------------------------------- independence claims

\* C40: a gate_open, gate_close or gate_reset_error of one gate, and a
\* polling tick of that gate, leave the other gate's state, last_operation,
\* operation_count and motor output as they were.
C40_GatesIndependent ==
    [][\A g \in Gates :
         (\/ gate_open(g)
          \/ gate_close(g)
          \/ gate_reset_error(g)
          \/ gate_control_thread(g))
         => \A h \in Gates \ {g} :
              /\ state'[h] = state[h]
              /\ last_operation'[h] = last_operation[h]
              /\ operation_count'[h] = operation_count[h]
              /\ motor'[h] = motor[h]]_vars

\* The exit gate has been opened once and is being closed with its motor
\* running, while the entry gate has never moved.
C40_Witness ==
    /\ ret = Returned("gate_close", 0)
    /\ state[GATE_EXIT] = GATE_STATE_CLOSING
    /\ motor[GATE_EXIT]
    /\ operation_count[GATE_EXIT] = 1
    /\ state[GATE_ENTRY] = GATE_STATE_CLOSED
    /\ operation_count[GATE_ENTRY] = 0
    /\ ~motor[GATE_ENTRY]

====
